---- MODULE Spec2Model ----
(***************************************************************************)
(* A model of rig's dispatcher (connection.go) and of the exec engines of  *)
(* its SSH and WinRM transports (ssh.go, winrm.go).                        *)
(*                                                                         *)
(* Six specifications share the module:                                    *)
(*   Spec      the Connection lifecycle: SetDefaults, Connect, Disconnect. *)
(*   SpecExec  one transport's Exec / ExecStreams call, step by step, with *)
(*             the remote command and the output pumps as processes.       *)
(*   SpecCancel  SpecExec with a concurrent Disconnect and fair scheduling *)
(*             of the call's goroutines.                                   *)
(*   SpecConfig  what the transports' Connect derive from configuration.   *)
(*   SpecSSH   SSH.Connect of several hosts of one process, each on its    *)
(*             own goroutine: defaults, auth assembly, host-key callback.  *)
(*   SpecBastion  SSH.Connect's recursion over a host's bastions.          *)
(***************************************************************************)
EXTENDS Integers, Sequences, FiniteSets, TLC

VARIABLES
    \* ---- Connection (connection.go) and the transports' client handles
    slots,          \* which of Connection.WinRM / Localhost / SSH are non-nil
    client,         \* Connection.client: "nil" or the bound transport
    OSVersion,      \* Connection.OSVersion: "nil" or the OS id
    sudofunc,       \* Connection.sudofunc: "nil" or a rewriter
    sshClient,      \* SSH.client: "nil", "open" or "closed" (closed, not nil)
    winrmClient,    \* WinRM.client: "nil" or "set"
    localConnected, \* Localhost: connected
    fault,          \* a nil-pointer panic happened
    \* ---- history of the lifecycle
    lastOp,         \* the last Connection method called
    lastConnect,    \* "none", or how the most recent Connect returned
    discSince,      \* Disconnect was called since the most recent Connect
    probeOk,        \* the elevation probes that exit 0 on the host, last Connect
    picked,         \* the rewriter configureSudo picked in the last Connect
    ret,            \* the last facade call besides these: its inputs and result
    unclosed,       \* ssh.Clients still open that no Disconnect closes
    \* ---- one Exec / ExecStreams call on a transport (ssh.go, winrm.go)
    tr,             \* the transport the call runs on ("none" under Spec)
    knowOs,         \* SSH.knowOs
    isWindows,      \* SSH.isWindows
    call,           \* the call in flight: method, cmd, options, caller
    pc,             \* where the calling goroutine stands
    session,        \* the session / shell: started command, PTY, open or closed
    remote,         \* the remote command: output still to come, exit code
    pipes,          \* lines buffered in the stdout / stderr pipes, stream ends
    pumps,          \* the pump goroutines' positions
    gotErrors,      \* the stderr pump's flag
    delivered,      \* events handed to the collector or writer so far
    result,         \* what the call returned, and what had been delivered then
    \* ---- the process's SSH hosts and its package-level state (ssh.go 50-55)
    ssh,            \* the SSH structs and where each one's Connect stands
    identityFiles,  \* what SSHConfigGetAll returns for IdentityFile, per host
    authMethodCache,    \* key path -> "none", or the outcome stored
    dummyhostKeyPaths,  \* the global default key paths
    globalOnce,     \* globalOnce has run
    knownHostsMU,   \* "unlocked", or the host whose goroutine holds the mutex
    reads           \* how often each file was read by pkeySigner

connVars == <<slots, client, OSVersion, sudofunc, sshClient, winrmClient,
              localConnected, fault, lastOp, lastConnect, discSince, probeOk, picked,
              ret, unclosed>>
execVars == <<tr, knowOs, isWindows, call, pc, session, remote, pipes, pumps,
              gotErrors, delivered, result>>
procVars == <<ssh, identityFiles, authMethodCache, dummyhostKeyPaths, globalOnce,
              knownHostsMU, reads>>
vars == <<connVars, execVars, procVars>>

----------------------------------------------------------------------------
(* Commands are sequences of shell tokens (what shlex.Split yields).       *)

Cmds == { <<"ls">>, <<"A=1", "ls", "/my dir">> }

\* strings.Contains(p, "=")
HasEq(p) == p \in {"A=1"}

\* shellescape.Quote: a token of safe characters is left as it is.
Quote(p) == IF p \in {"ls", "A=1"} THEN p ELSE "'" \o p \o "'"

RECURSIVE EnvPrefix(_, _)
\* connection.go 288-295: idx, the number of leading VAR=value tokens
EnvPrefix(parts, i) ==
    IF i > Len(parts) THEN i - 1
    ELSE IF HasEq(parts[i]) THEN EnvPrefix(parts, i + 1)
    ELSE i - 1

sudoNoop(cmd) == cmd

sudoSudo(cmd) ==
    LET idx == EnvPrefix(cmd, 1)
    IN  IF idx = 0 THEN <<"sudo", "-s", "--">> \o cmd
        ELSE <<"sudo", "-s">>
             \o [i \in 1..idx |-> Quote(cmd[i])]
             \o <<"--">>
             \o [i \in 1..(Len(cmd) - idx) |-> Quote(cmd[idx + i])]

sudoDoas(cmd) == <<"doas", "-s", "--">> \o cmd

sudoWindows(cmd) == <<"runas", "/user:Administrator">> \o cmd

\* calling a sudofn value
ApplySudofn(fn, cmd) ==
    CASE fn = "sudoNoop"    -> sudoNoop(cmd)
      [] fn = "sudoSudo"    -> sudoSudo(cmd)
      [] fn = "sudoDoas"    -> sudoDoas(cmd)
      [] fn = "sudoWindows" -> sudoWindows(cmd)

\* The probes of sudoChecks, and the rewriter each maps to.
sudoChecks == [root |-> "sudoNoop", sudo |-> "sudoSudo", doas |-> "sudoDoas"]
UnixChecks == DOMAIN sudoChecks
sudoCheckWindows == "whoami"

\* The orders in which `range sudoChecks` may visit the map: Go leaves the
\* iteration order of a map unspecified.
CheckOrders ==
    { o \in [1..3 -> UnixChecks] : \A i, j \in 1..3 : i # j => o[i] # o[j] }

----------------------------------------------------------------------------
(* Connection                                                              *)

\* configuredClient with the SSH slot looked at before the Localhost slot
configuredClientSSHFirst ==
    IF slots.WinRM THEN "WinRM"
    ELSE IF slots.SSH THEN "SSH"
    ELSE IF slots.Localhost THEN "Localhost"
    ELSE "nil"

configuredClient ==
    IF slots.WinRM THEN "WinRM"
    ELSE IF slots.Localhost THEN "Localhost"
    ELSE IF slots.SSH THEN "SSH"
    ELSE "nil"

defaultClient == "Localhost"

SSHIsConnected == sshClient # "nil"

WinRMIsConnected == winrmClient # "nil"

LocalhostIsConnected == localConnected

\* c.client.IsConnected()
ClientIsConnected(c) ==
    CASE c = "SSH"       -> SSHIsConnected
      [] c = "WinRM"     -> WinRMIsConnected
      [] c = "Localhost" -> LocalhostIsConnected

IsConnected == client # "nil" /\ ClientIsConnected(client)

\* what SetDefaults leaves in c.client
BoundClient ==
    IF client # "nil" THEN client
    ELSE IF configuredClient # "nil" THEN configuredClient
    ELSE defaultClient

Sudo(cmd) ==
    IF sudofunc = "nil" THEN [err |-> "ErrSudoRequired", cmd |-> <<>>]
    ELSE [err |-> "nil", cmd |-> ApplySudofn(sudofunc, cmd)]

\* configureSudo: the rewriter it assigns, "nil" when it assigns none.
\* `ok` are the probes whose Exec returns nil, `order` the map's iteration order.
RECURSIVE FirstOk(_, _, _)
FirstOk(order, ok, i) ==
    IF i > Len(order) THEN "nil"
    ELSE IF order[i] \in ok THEN sudoChecks[order[i]]
    ELSE FirstOk(order, ok, i + 1)

configureSudo(os, ok, order) ==
    IF os = "windows"
    THEN IF sudoCheckWindows \in ok THEN "sudoWindows" ELSE "nil"
    ELSE FirstOk(order, ok, 1)

\* The OS ids the OS probe may report for a transport.
OSIds(c) == IF c = "WinRM" THEN {"windows"} ELSE {"linux", "windows"}

\* The probes that can exit 0 on a host of that OS.
ProbeSets(os) ==
    IF os = "windows" THEN SUBSET {sudoCheckWindows} ELSE SUBSET UnixChecks

\* No facade call besides the lifecycle's has returned.
NoRet == [op |-> "none"]

\* ---- Errors are cause chains, outermost first; the nil error is empty.
NilErr == <<>>

\* errstring: kind.Wrap(err)
Wrap(kind, err) == <<kind>> \o err

\* errstring: kind.Wrapf("msg: %w", err)
Wrapf(kind, msg, err) == <<kind, msg>> \o err

\* Errorf with the cause formatted by %v: the chain is lost
ErrorfFlat(msg, err) == <<msg>>

\* fmt.Errorf("msg: %w", err)
Errorf(msg, err) == <<msg>> \o err

\* errors.Is(err, target)
ErrorsIs(err, target) == \E i \in 1..Len(err) : err[i] = target

\* ---- The transports' Connect (ssh.go 368-412, winrm.go 122-181)
\* How a dial with SSH handshake can end, and the error it returns.
DialOutcomes == {"ok", "refused", "mismatch"}

DialError(outcome) ==
    CASE outcome = "ok"       -> NilErr
      [] outcome = "refused"  -> <<"dial tcp: connection refused">>
      [] outcome = "mismatch" -> <<"ssh: handshake failed", "ErrHostKeyMismatch">>

\* An SSH host and what meets its Connect: whether clientConfig succeeds, its
\* Bastion (none, or one host), whether the bastion's client can dial the
\* target, and how the dial and handshake with the host itself end.
\* A step that Connect does not reach is listed with outcome "ok" only.
SSHDirect ==
    { h \in [config : {"ok", "err"}, bastion : {<<>>}, tunnel : {"ok"},
             dial : DialOutcomes] :
        h.config = "err" => h.dial = "ok" }

SSHReady(h) == h.config = "ok" /\ h.tunnel = "ok" /\ h.dial = "ok"

SSHViaBastion ==
    { h \in [config : {"ok", "err"}, bastion : {<<b>> : b \in SSHDirect},
             tunnel : {"ok", "err"}, dial : DialOutcomes] :
        /\ h.config = "err" => SSHReady(h.bastion[1]) /\ h.tunnel = "ok"
        /\ ~SSHReady(h.bastion[1]) => h.tunnel = "ok"
        /\ (h.config = "err" \/ ~SSHReady(h.bastion[1]) \/ h.tunnel = "err")
              => h.dial = "ok" }

SSHHosts == SSHDirect \cup SSHViaBastion

\* The error of the dial and handshake with the host, direct or tunnelled
SSHDialResult(h, msg) ==
    IF h.dial = "ok" THEN NilErr
    ELSE IF ErrorsIs(DialError(h.dial), "ErrHostKeyMismatch")
         THEN IF Len(h.bastion) = 0
              THEN Wrap("ErrCantConnect", DialError(h.dial))
              ELSE Wrapf("ErrCantConnect", msg, DialError(h.dial))
    ELSE Errorf(msg, DialError(h.dial))

RECURSIVE SSHConnect(_)
SSHConnect(h) ==
    IF h.config = "err"
    THEN Wrapf("ErrCantConnect", "create config",
               <<"ErrCantConnect", "no usable authentication method found">>)
    ELSE IF Len(h.bastion) = 0 THEN SSHDialResult(h, "ssh dial")
    ELSE LET err == SSHConnect(h.bastion[1])
         IN  IF err # NilErr
             THEN IF ErrorsIs(err, "ErrHostKeyMismatch")
                  THEN Wrapf("ErrCantConnect", "bastion connect", err)
                  ELSE err
             ELSE IF h.tunnel = "err"
                  THEN Errorf("bastion dial", <<"dial tcp: connection refused">>)
             ELSE SSHDialResult(h, "bastion client connect")

\* A WinRM host and what meets its Connect: whether the certificates load,
\* its SSH Bastion, and whether creating and testing the client succeed.
WinRMHosts ==
    { w \in [certs : {"ok", "err"},
             bastion : {<<>>} \cup {<<b>> : b \in SSHDirect},
             client : {"ok", "create", "test"}] :
        /\ w.certs = "err" => w.bastion = <<>>
        /\ (w.certs = "err" \/ (w.bastion # <<>> /\ ~SSHReady(w.bastion[1])))
              => w.client = "ok" }

WinRMConnect(w) ==
    IF w.certs = "err"
    THEN Wrapf("ErrCantConnect", "failed to load certificates",
               <<"ErrInvalidPath", "load cert">>)
    ELSE LET err == IF Len(w.bastion) = 0 THEN NilErr ELSE SSHConnect(w.bastion[1])
         IN  IF err # NilErr THEN Errorf("bastion connect", err)
             ELSE IF w.client = "create"
                  THEN Errorf("create winrm client", <<"invalid endpoint">>)
             ELSE IF w.client = "test"
                  THEN Errorf("test connection", <<"http error">>)
             ELSE NilErr

\* Localhost.Connect meets nothing that can fail.
LocalHosts == {[enabled |-> TRUE]}

\* The hosts a client of that transport may be, and c.client.Connect()
Hosts(c) ==
    CASE c = "SSH"       -> SSHHosts
      [] c = "WinRM"     -> WinRMHosts
      [] c = "Localhost" -> LocalHosts

ClientConnect(c, h) ==
    CASE c = "SSH"       -> SSHConnect(h)
      [] c = "WinRM"     -> WinRMConnect(h)
      [] c = "Localhost" -> NilErr

\* ConnectSteps with the OS probe run before the transport connects
ConnectStepsProbeFirst(terr, err) ==
    (IF client = "nil" THEN <<"defaults.Set">> ELSE <<>>)
    \o (IF OSVersion = "nil" THEN <<"GetOSVersion">> ELSE <<>>)
    \o <<"client.Connect">>
    \o (IF err # NilErr THEN <<>> ELSE <<"configureSudo">>)

\* The calls Connection.Connect makes, in order, when client.Connect returns
\* `terr` and Connect itself `err`
ConnectSteps(terr, err) ==
    (IF client = "nil" THEN <<"defaults.Set">> ELSE <<>>)
    \o <<"client.Connect">>
    \o (IF terr # NilErr THEN <<>>
        ELSE (IF OSVersion = "nil" THEN <<"GetOSVersion">> ELSE <<>>)
             \o (IF err # NilErr THEN <<>> ELSE <<"configureSudo">>))

\* What Connection.Connect returned: the client and its host, the error of
\* client.Connect, its own, and the calls it made
ConnectRet(c, h, terr, err) ==
    [op |-> "Connect", client |-> c, host |-> h, terr |-> terr, err |-> err,
     steps |-> ConnectSteps(terr, err)]

\* The open ssh.Clients besides SSH.client after client.Connect on host `h`:
\* the bastion's (c.Bastion.client), and the ones a Connect has overwritten
\* in SSH.client (ssh.go 388, 409) without closing them. `connected` says
\* that the transport's Connect returned nil. The bastion holds an open
\* ssh.Client when c.Bastion.Connect() returned nil inside the transport's
\* Connect (ssh.go 392, winrm.go 150-151).
UnclosedAfter(c, h, connected) ==
    LET BastionConnected ==
            CASE c = "SSH"       -> /\ h.config = "ok"
                                    /\ Len(h.bastion) > 0
                                    /\ SSHConnect(h.bastion[1]) = NilErr
              [] c = "WinRM"     -> /\ h.certs = "ok"
                                    /\ Len(h.bastion) > 0
                                    /\ SSHConnect(h.bastion[1]) = NilErr
              [] c = "Localhost" -> FALSE
    IN
    unclosed
    \cup (IF BastionConnected
          THEN {"bastion"} \cup (IF "bastion" \in unclosed THEN {"replaced"} ELSE {})
          ELSE {})
    \cup (IF connected /\ c = "SSH" /\ sshClient = "open" THEN {"replaced"} ELSE {})

ConnInit ==
    /\ slots \in [WinRM : BOOLEAN, Localhost : BOOLEAN, SSH : BOOLEAN]
    /\ client = "nil"
    /\ OSVersion = "nil"
    /\ sudofunc = "nil"
    /\ sshClient = "nil"
    /\ winrmClient = "nil"
    /\ localConnected = FALSE
    /\ fault = FALSE
    /\ lastOp = "none"
    /\ lastConnect = "none"
    /\ discSince = FALSE
    /\ probeOk = {}
    /\ picked = "nil"
    /\ ret = NoRet
    /\ unclosed = {}

SetDefaults ==
    /\ ~fault
    /\ client' = BoundClient
    /\ lastOp' = "SetDefaults"
    /\ UNCHANGED <<slots, OSVersion, sudofunc, sshClient, winrmClient,
                   localConnected, fault, lastConnect, discSince, probeOk, picked,
                   unclosed>>
    /\ ret' = NoRet
    /\ UNCHANGED <<execVars, procVars>>

\* Connection.Connect has three ways to return, one action each.
\* The transport's Connect returned an error: c.client = nil
ConnectTransportFails(h) ==
    /\ ~fault
    /\ ClientConnect(BoundClient, h) # NilErr
    /\ ret' = ConnectRet(BoundClient, h, ClientConnect(BoundClient, h),
                         Wrapf("ErrNotConnected", "client connect",
                               ClientConnect(BoundClient, h)))
    /\ client' = "nil"
    /\ lastOp' = "Connect"
    /\ lastConnect' = "err"
    /\ discSince' = FALSE
    /\ unclosed' = UnclosedAfter(BoundClient, h, FALSE)
    /\ UNCHANGED <<slots, OSVersion, sudofunc, sshClient, winrmClient,
                   localConnected, fault, probeOk, picked>>
    /\ UNCHANGED <<execVars, procVars>>

\* what a successful transport Connect leaves in the transports' handles
TransportConnected(c) ==
    /\ sshClient' = IF c = "SSH" THEN "open" ELSE sshClient
    /\ winrmClient' = IF c = "WinRM" THEN "set" ELSE winrmClient
    /\ localConnected' = IF c = "Localhost" THEN TRUE ELSE localConnected

\* The transport connected, OSVersion is nil and GetOSVersion fails: return err
ConnectOSProbeFails(h) ==
    /\ ~fault
    /\ ClientConnect(BoundClient, h) = NilErr
    /\ ret' = ConnectRet(BoundClient, h, NilErr, <<"os probe failed">>)
    /\ OSVersion = "nil"
    /\ client' = BoundClient
    /\ TransportConnected(BoundClient)
    /\ lastOp' = "Connect"
    /\ lastConnect' = "err"
    /\ discSince' = FALSE
    /\ unclosed' = UnclosedAfter(BoundClient, h, TRUE)
    /\ UNCHANGED <<slots, OSVersion, sudofunc, fault, probeOk, picked>>
    /\ UNCHANGED <<execVars, procVars>>

\* Connect returns nil
ConnectOk(h) ==
    /\ ~fault
    /\ ClientConnect(BoundClient, h) = NilErr
    /\ ret' = ConnectRet(BoundClient, h, NilErr, NilErr)
    /\ \E os \in OSIds(BoundClient) :
         /\ OSVersion # "nil" => os = OSVersion
         /\ \E ok \in ProbeSets(os) :
              \E fn \in { configureSudo(os, ok, order) : order \in CheckOrders } :
                  /\ OSVersion' = os
                  /\ sudofunc' = IF fn # "nil" THEN fn ELSE sudofunc
                  /\ probeOk' = ok
                  /\ picked' = fn
    /\ client' = BoundClient
    /\ TransportConnected(BoundClient)
    /\ lastOp' = "Connect"
    /\ lastConnect' = "ok"
    /\ discSince' = FALSE
    /\ unclosed' = UnclosedAfter(BoundClient, h, TRUE)
    /\ UNCHANGED <<slots, fault>>
    /\ UNCHANGED <<execVars, procVars>>

\* SSH.Disconnect: c.client.Close() through a nil *ssh.Client panics
SSHDisconnectFaults == sshClient = "nil"

Disconnect ==
    /\ ~fault
    /\ lastOp' = "Disconnect"
    /\ discSince' = TRUE
    /\ IF client = "SSH" /\ SSHDisconnectFaults
       THEN /\ fault' = TRUE
            /\ UNCHANGED <<client, sshClient, winrmClient, localConnected>>
       ELSE /\ fault' = FALSE
            /\ client' = "nil"
            /\ sshClient' = IF client = "SSH" THEN "closed" ELSE sshClient
            /\ winrmClient' = IF client = "WinRM" THEN "nil" ELSE winrmClient
            /\ localConnected' = IF client = "Localhost" THEN FALSE ELSE localConnected
    /\ UNCHANGED <<slots, OSVersion, sudofunc, lastConnect, probeOk, picked,
                   unclosed>>
    /\ ret' = NoRet
    /\ UNCHANGED <<execVars, procVars>>

\* ---- Connection.Upload (connection.go 385-424)
\* The bytes of the local file, and what dst may hold: these, or one perturbed.
LocalFiles == { <<1>> }
Contents == { <<1>>, <<2>> }

\* A SHA-256 digest; distinct contents of Contents have distinct digests.
Sha256Sum(bytes) == [alg |-> "sha256", of |-> bytes]

\* fmt.Sprintf("%x", sum), and the hex string fsys.Sha256 returns
HexDigest(sum) == [hex |-> sum]

\* The steps of Upload that the environment can let fail.
UploadSteps == {"ok", "open", "stat", "openfile", "copy", "sha256"}

\* Upload's error. `src` are the bytes of the local file, which CopyFromN
\* feeds to shasum; `stored` is the content of dst when fsys.Sha256 runs.
UploadResult(src, stored, failAt) ==
    IF ~IsConnected THEN "ErrNotConnected"
    ELSE IF failAt \in {"open", "stat", "openfile"} THEN "ErrInvalidPath"
    ELSE IF failAt \in {"copy", "sha256"} THEN "ErrUploadFailed"
    ELSE IF HexDigest(Sha256Sum(stored)) # HexDigest(Sha256Sum(src))
         THEN "ErrUploadFailed"
    ELSE "nil"

\* The calls Upload makes on the local file, on the remote filesystem and on
\* the remote file, in the order they happen; the deferred Close calls run
\* when Upload returns, the last deferred first.
UploadCalls(failAt) ==
    LET Upto(step) ==
            CASE step = "open"     -> <<"os.Open">>
              [] step = "stat"     -> <<"os.Open", "local.Stat">>
              [] step = "openfile" -> <<"os.Open", "local.Stat", "fsys.OpenFile">>
              [] step = "copy"     -> <<"os.Open", "local.Stat", "fsys.OpenFile",
                                        "remote.CopyFromN">>
              [] OTHER             -> <<"os.Open", "local.Stat", "fsys.OpenFile",
                                        "remote.CopyFromN", "fsys.Sha256">>
        Deferred(step) ==
            CASE step = "open"                 -> <<>>
              [] step \in {"stat", "openfile"} -> <<"local.Close">>
              [] OTHER                         -> <<"remote.Close", "local.Close">>
    IN  IF ~IsConnected THEN <<>> ELSE Upto(failAt) \o Deferred(failAt)

Upload(src, stored, failAt) ==
    /\ ~fault
    /\ ret' = [op |-> "Upload", src |-> src, stored |-> stored,
               failAt |-> failAt, connected |-> IsConnected,
               calls |-> UploadCalls(failAt),
               err |-> UploadResult(src, stored, failAt)]
    /\ lastOp' = "Upload"
    /\ UNCHANGED <<slots, client, OSVersion, sudofunc, sshClient, winrmClient,
                   localConnected, fault, lastConnect, discSince, probeOk, picked,
                   unclosed>>
    /\ UNCHANGED <<execVars, procVars>>

\* ---- Connection.Exec, ExecOutput, ExecStreams, ExecInteractive
\* (connection.go 213-249, 361-373): checkConnected, then the transport.
\* `o` is how the transport's call ends; no session can be opened on a
\* closed ssh.Client.
Facade(m, o) ==
    LET transportCall ==
            CASE m \in {"Exec", "ExecOutput"} -> "client.Exec"
              [] m = "ExecStreams"            -> "client.ExecStreams"
              [] m = "ExecInteractive"        -> "client.ExecInteractive"
        msg ==
            CASE m \in {"Exec", "ExecOutput"} -> "client exec"
              [] m = "ExecStreams"            -> "exec (with streams)"
              [] m = "ExecInteractive"        -> "client exec interactive"
        notConnected ==
            IF m = "ExecStreams"
            THEN Wrapf("ErrNotConnected", "exec streams", NilErr)
            ELSE <<"ErrNotConnected">>
    IN
    /\ ~fault
    /\ (IsConnected /\ client = "SSH" /\ sshClient # "open") => o = "err"
    /\ ~IsConnected => o = "ok"
    /\ ret' = [op |-> m, connected |-> IsConnected,
               calls |-> IF IsConnected THEN <<transportCall>> ELSE <<>>,
               err |-> IF ~IsConnected THEN notConnected
                       ELSE IF o = "err"
                            THEN Wrapf("ErrCommandFailed", msg, <<"transport error">>)
                       ELSE NilErr]
    /\ lastOp' = m
    /\ UNCHANGED <<slots, client, OSVersion, sudofunc, sshClient, winrmClient,
                   localConnected, fault, lastConnect, discSince, probeOk, picked,
                   unclosed>>
    /\ UNCHANGED <<execVars, procVars>>

\* ---- The accessors (connection.go 121-144, 204-211)
\* client.Protocol()
ClientProtocol(c) ==
    CASE c = "SSH"       -> "SSH"
      [] c = "WinRM"     -> "WinRM"
      [] c = "Localhost" -> "Local"

\* client.IPAddress(): the host's Address field
ClientIPAddress(c) ==
    CASE c = "SSH"       -> "10.0.0.1"
      [] c = "WinRM"     -> "10.0.0.2"
      [] c = "Localhost" -> "127.0.0.1"

\* The accessors leave all but ret and lastOp as it is.
AccessorReturns(op, value) ==
    /\ ret' = [op |-> op, value |-> value]
    /\ lastOp' = op
    /\ UNCHANGED <<slots, client, OSVersion, sudofunc, sshClient, winrmClient,
                   localConnected, lastConnect, discSince, probeOk, picked, unclosed>>
    /\ UNCHANGED <<tr, call, pc, session, remote, pipes, pumps, gotErrors,
                   delivered, result>>
    /\ UNCHANGED procVars

Protocol ==
    /\ ~fault
    /\ AccessorReturns("Protocol",
            IF client # "nil" THEN ClientProtocol(client)
            ELSE IF configuredClient # "nil" THEN ClientProtocol(configuredClient)
            ELSE "")
    /\ UNCHANGED <<fault, knowOs, isWindows>>

Address ==
    /\ ~fault
    /\ AccessorReturns("Address",
            IF client # "nil" THEN ClientIPAddress(client)
            ELSE IF configuredClient # "nil" THEN ClientIPAddress(configuredClient)
            ELSE "")
    /\ UNCHANGED <<fault, knowOs, isWindows>>

\* Connection.IsWindows: the client whose IsWindows it calls, "nil" when it
\* calls it through the nil c.client
IsWindowsTarget ==
    IF ~IsConnected /\ configuredClient # "nil" THEN configuredClient ELSE client

\* SSH.IsWindows (ssh.go 232-246) inspects the host when it has a client and
\* has not done so before; `w` is what it finds.
IsWindows(w) ==
    /\ ~fault
    /\ IF IsWindowsTarget = "nil"
       THEN /\ fault' = TRUE
            /\ AccessorReturns("IsWindows", FALSE)
            /\ UNCHANGED <<knowOs, isWindows>>
       ELSE /\ fault' = FALSE
            /\ IF IsWindowsTarget = "SSH" /\ ~knowOs /\ sshClient # "nil"
               THEN /\ isWindows' = w
                    /\ knowOs' = TRUE
                    /\ AccessorReturns("IsWindows", w)
               ELSE /\ UNCHANGED <<knowOs, isWindows>>
                    /\ AccessorReturns("IsWindows",
                            CASE IsWindowsTarget = "SSH"       -> isWindows
                              [] IsWindowsTarget = "WinRM"     -> TRUE
                              [] IsWindowsTarget = "Localhost" -> FALSE)

Next ==
    \/ SetDefaults
    \/ \E h \in Hosts(BoundClient) : ConnectTransportFails(h)
    \/ \E h \in Hosts(BoundClient) : ConnectOSProbeFails(h)
    \/ \E h \in Hosts(BoundClient) : ConnectOk(h)
    \/ Disconnect
    \/ \E src \in LocalFiles, stored \in Contents, failAt \in UploadSteps :
         \* dst is read only when every step before has succeeded
         /\ (~IsConnected \/ failAt # "ok") => stored = src
         \* no remote file can be opened over a closed ssh.Client
         /\ (IsConnected /\ client = "SSH" /\ sshClient # "open")
                => failAt \in {"open", "stat", "openfile"}
         /\ Upload(src, stored, failAt)
    \/ \E m \in {"Exec", "ExecOutput", "ExecStreams", "ExecInteractive"},
          o \in {"ok", "err"} : Facade(m, o)
    \/ Protocol
    \/ Address
    \/ \E w \in BOOLEAN : IsWindows(w)

----------------------------------------------------------------------------
(* The exec engine: one call on a connected transport                      *)

MaxLines == 1       \* lines the remote command writes to each of stdout, stderr

ptyWidth == 80
ptyHeight == 40
NoPty == [term |-> "none", width |-> 0, height |-> 0, echo |-> 0]
ExecPty == [term |-> "xterm", width |-> ptyWidth, height |-> ptyHeight, echo |-> 0]

NoCmd == <<>>
NoCall == [method |-> "none", caller |-> "none", cmd |-> NoCmd, sudo |-> FALSE,
           stdin |-> "", allowWinStderr |-> FALSE, writer |-> FALSE]
NoSession == [state |-> "none", started |-> NoCmd, pty |-> NoPty, stdin |-> "none"]
NoRemote == [state |-> "none", exit |-> 0, outSent |-> 0, errSent |-> 0]
NoPipes == [out |-> 0, err |-> 0]
NoPumps == [in |-> "none", out |-> "none", err |-> "none"]
NoDelivered == [out |-> 0, err |-> 0]
NoResult == [err |-> "none", delivered |-> NoDelivered]

\* What a caller may pass to Exec: a command and exec.Options.
ExecCalls ==
    [method : {"Exec"}, caller : {"user"}, cmd : Cmds, sudo : BOOLEAN,
     stdin : {"", "data"}, allowWinStderr : BOOLEAN, writer : BOOLEAN]

\* What a caller may pass to ExecStreams; stdin is nil, an io.ReadCloser that
\* reaches EOF, or one that never does.
ExecStreamsCalls ==
    [method : {"ExecStreams"}, caller : {"user"}, cmd : Cmds, sudo : BOOLEAN,
     stdin : {"", "reader", "endless"}, allowWinStderr : {FALSE}, writer : {TRUE}]

\* SSH.IsWindows' probe: c.Exec("cmd.exe /c exit 0")
IsWindowsCall ==
    [method |-> "Exec", caller |-> "IsWindows", cmd |-> <<"cmd.exe", "/c", "exit", "0">>,
     sudo |-> FALSE, stdin |-> "", allowWinStderr |-> FALSE, writer |-> FALSE]

\* exec.Options.Command: the rewriter is the host's Sudo when the option is set
Command(c) == IF c.sudo THEN Sudo(c.cmd) ELSE [err |-> "nil", cmd |-> c.cmd]

\* The exit codes the transport can report.
ExitCodes(t) == IF t = "SSH" THEN {0, 1} ELSE {-1, 0, 1}

\* PtyWanted without the test for a stdin payload
PtyWantedIgnoringStdin(c) == knowOs /\ ~isWindows

\* ssh.go 523: the PTY condition
PtyWanted(c) == Len(c.stdin) = 0 /\ knowOs /\ ~isWindows

Started(cmd, pty, stdin) ==
    [state |-> "open", started |-> cmd, pty |-> pty, stdin |-> stdin]
Running == [state |-> "running", exit |-> 0, outSent |-> 0, errSent |-> 0]

\* A call returns `err`; `s` is the session it leaves behind.
Return(err, s) ==
    /\ pc' = "returned"
    /\ session' = s
    /\ result' = [err |-> err, delivered |-> delivered]

\* ---- SSH.Exec (ssh.go 510-606), up to the point where the pumps run.
\* `o` is where the environment lets the call fail, "ok" when nowhere.
SSHExec(c, o) ==
    /\ tr = "SSH"
    /\ IsConnected
    /\ pc = "idle"
    /\ call' = c
    /\ LET built == Command(c)
           pty == IF PtyWanted(c) THEN ExecPty ELSE NoPty
       IN
       IF o = "session" THEN
            Return("error", NoSession) /\ UNCHANGED <<remote, pumps>>
       ELSE IF built.err # "nil" THEN
            Return("error", [NoSession EXCEPT !.state = "closed"])
            /\ UNCHANGED <<remote, pumps>>
       ELSE IF o = "pty" /\ PtyWanted(c) THEN
            Return("error", [NoSession EXCEPT !.state = "closed", !.pty = pty])
            /\ UNCHANGED <<remote, pumps>>
       ELSE IF o = "start" THEN
            Return("error", [NoSession EXCEPT !.state = "closed", !.pty = pty])
            /\ UNCHANGED <<remote, pumps>>
       ELSE IF o = "stdin" /\ Len(c.stdin) > 0 THEN
            Return("error", [Started(built.cmd, pty, "open") EXCEPT !.state = "closed"])
            /\ remote' = Running
            /\ UNCHANGED pumps
       ELSE /\ session' = Started(built.cmd, pty, "closed")
            /\ remote' = Running
            /\ pumps' = [in |-> "none", out |-> "run", err |-> "run"]
            /\ pc' = "waiting"
            /\ UNCHANGED result
    /\ UNCHANGED <<tr, knowOs, isWindows, pipes, gotErrors, delivered>>
    /\ UNCHANGED <<connVars, procVars>>

\* ---- SSH.ExecStreams (ssh.go 482-507): the session is the Waiter; Start
\* runs the session's own copiers from and to the caller's streams.
SSHExecStreams(c, o) ==
    /\ tr = "SSH"
    /\ IsConnected
    /\ pc = "idle"
    /\ call' = c
    /\ LET built == Command(c)
       IN
       IF built.err # "nil" THEN
            Return("ErrCommandFailed", NoSession) /\ UNCHANGED <<remote, pumps>>
       ELSE IF o = "session" THEN
            Return("ErrCantConnect", NoSession) /\ UNCHANGED <<remote, pumps>>
       ELSE IF o = "start" THEN
            Return("ErrCantConnect", [NoSession EXCEPT !.state = "open"])
            /\ UNCHANGED <<remote, pumps>>
       ELSE /\ session' = Started(built.cmd, NoPty, "open")
            /\ remote' = Running
            /\ pumps' = [in |-> IF c.stdin = "" THEN "none" ELSE "run",
                         out |-> "run", err |-> "run"]
            /\ pc' = "waiter"
            /\ UNCHANGED result
    /\ UNCHANGED <<tr, knowOs, isWindows, pipes, gotErrors, delivered>>
    /\ UNCHANGED <<connVars, procVars>>

\* ---- WinRM.Exec (winrm.go 261-342), up to command.Wait()
WinRMExec(c, o) ==
    /\ tr = "WinRM"
    /\ IsConnected
    /\ pc = "idle"
    /\ call' = c
    /\ IF o = "session" THEN
            Return("error", NoSession) /\ UNCHANGED <<remote, pumps>>
       ELSE IF o = "start" THEN
            Return("error", [NoSession EXCEPT !.state = "closed"])
            /\ UNCHANGED <<remote, pumps>>
       ELSE /\ session' = Started(c.cmd, NoPty, "open")
            /\ remote' = Running
            /\ pumps' = [in |-> IF c.stdin # "" THEN "run" ELSE "none",
                         out |-> "run", err |-> "run"]
            /\ pc' = "waiting"
            /\ UNCHANGED result
    /\ UNCHANGED <<tr, knowOs, isWindows, pipes, gotErrors, delivered>>
    /\ UNCHANGED <<connVars, procVars>>

\* ---- WinRM.ExecStreams (winrm.go 238-258): returns a Command as the Waiter
WinRMExecStreams(c, o) ==
    /\ tr = "WinRM"
    /\ IsConnected
    /\ pc = "idle"
    /\ call' = c
    /\ LET built == Command(c)
       IN
       IF built.err # "nil" THEN
            Return("ErrCommandFailed", NoSession) /\ UNCHANGED <<remote, pumps>>
       ELSE IF o = "session" THEN
            Return("ErrCantConnect", NoSession) /\ UNCHANGED <<remote, pumps>>
       ELSE IF o = "start" THEN
            Return("ErrCommandFailed", [NoSession EXCEPT !.state = "open"])
            /\ UNCHANGED <<remote, pumps>>
       ELSE /\ session' = Started(built.cmd, NoPty, "open")
            /\ remote' = Running
            /\ pc' = "waiter"
            /\ UNCHANGED <<pumps, result>>
    /\ UNCHANGED <<tr, knowOs, isWindows, pipes, gotErrors, delivered>>
    /\ UNCHANGED <<connVars, procVars>>

\* ---- Command.Wait (winrm.go 198-224) and ssh.Session.Wait on the Waiter
\* that ExecStreams returned: the caller starts to wait.
WaiterWait ==
    /\ pc = "waiter"
    /\ pc' = "waiting"
    /\ IF tr = "WinRM"
       THEN /\ pumps' = [in |-> IF call.stdin = "" THEN "none" ELSE "run",
                         out |-> "run", err |-> "run"]
            /\ session' = [session EXCEPT
                             !.stdin = IF call.stdin = "" THEN "closed" ELSE @]
       ELSE UNCHANGED <<pumps, session>>
    /\ UNCHANGED <<tr, knowOs, isWindows, call, remote, pipes, gotErrors,
                   delivered, result>>
    /\ UNCHANGED <<connVars, procVars>>

\* ---- The remote command
RemoteWriteStdout ==
    /\ remote.state = "running"
    /\ session.state = "open"
    /\ remote.outSent < MaxLines
    /\ remote' = [remote EXCEPT !.outSent = @ + 1]
    /\ pipes' = [pipes EXCEPT !.out = @ + 1]
    /\ UNCHANGED <<tr, knowOs, isWindows, call, pc, session, pumps, gotErrors,
                   delivered, result>>
    /\ UNCHANGED <<connVars, procVars>>

RemoteWriteStderr ==
    /\ remote.state = "running"
    /\ session.state = "open"
    /\ remote.errSent < MaxLines
    /\ remote' = [remote EXCEPT !.errSent = @ + 1]
    /\ pipes' = [pipes EXCEPT !.err = @ + 1]
    /\ UNCHANGED <<tr, knowOs, isWindows, call, pc, session, pumps, gotErrors,
                   delivered, result>>
    /\ UNCHANGED <<connVars, procVars>>

\* The command exits and the transport reports its exit code.
RemoteExit ==
    /\ remote.state = "running"
    /\ session.state = "open"
    /\ \E code \in ExitCodes(tr) :
         remote' = [remote EXCEPT !.state = "exited", !.exit = code]
    /\ UNCHANGED <<tr, knowOs, isWindows, call, pc, session, pipes, pumps,
                   gotErrors, delivered, result>>
    /\ UNCHANGED <<connVars, procVars>>

\* The transport breaks before an exit code arrives.
RemoteAbort ==
    /\ remote.state = "running"
    /\ session.state = "open"
    /\ remote' = [remote EXCEPT !.state = "aborted"]
    /\ UNCHANGED <<tr, knowOs, isWindows, call, pc, session, pipes, pumps,
                   gotErrors, delivered, result>>
    /\ UNCHANGED <<connVars, procVars>>

\* No more output will arrive on the session's streams.
StreamsEnded == remote.state \in {"exited", "aborted"} \/ session.state = "closed"

\* The stream ends with a read error, not with io.EOF.
StreamsBroken == tr = "WinRM" /\ remote.state = "aborted"

\* The pump line-scans (bufio.Scanner) instead of copying.
Scans(stream) ==
    /\ call.method = "Exec"
    /\ stream = "out" => ~call.writer

\* ---- The stdout pump (ssh.go 555-574, winrm.go 289-307)
\* `tooLong`: the line exceeds the scanner's buffer, Scan returns false.
StdoutPump(tooLong) ==
    /\ pumps.out = "run"
    /\ pipes.out > 0
    /\ tooLong => Scans("out")
    /\ pipes' = [pipes EXCEPT !.out = @ - 1]
    /\ IF tooLong
       THEN pumps' = [pumps EXCEPT !.out = "done"] /\ UNCHANGED delivered
       ELSE delivered' = [delivered EXCEPT !.out = @ + 1] /\ UNCHANGED pumps
    /\ UNCHANGED <<tr, knowOs, isWindows, call, pc, session, remote, gotErrors, result>>
    /\ UNCHANGED <<connVars, procVars>>

StdoutPumpEnd ==
    /\ pumps.out = "run"
    /\ pipes.out = 0
    /\ StreamsEnded
    /\ pumps' = [pumps EXCEPT !.out = "done"]
    /\ UNCHANGED <<tr, knowOs, isWindows, call, pc, session, remote, pipes,
                   gotErrors, delivered, result>>
    /\ UNCHANGED <<connVars, procVars>>

\* ---- The stderr pump (ssh.go 579-592, winrm.go 312-326)
StderrPump(tooLong) ==
    /\ pumps.err = "run"
    /\ pipes.err > 0
    /\ tooLong => Scans("err")
    /\ pipes' = [pipes EXCEPT !.err = @ - 1]
    /\ gotErrors' = IF Scans("err") THEN TRUE ELSE gotErrors
    /\ IF tooLong
       THEN pumps' = [pumps EXCEPT !.err = "done"] /\ UNCHANGED delivered
       ELSE delivered' = [delivered EXCEPT !.err = @ + 1] /\ UNCHANGED pumps
    /\ UNCHANGED <<tr, knowOs, isWindows, call, pc, session, remote, result>>
    /\ UNCHANGED <<connVars, procVars>>

StderrPumpEnd ==
    /\ pumps.err = "run"
    /\ pipes.err = 0
    /\ StreamsEnded
    /\ pumps' = [pumps EXCEPT !.err = "done"]
    /\ gotErrors' = IF Scans("err") /\ StreamsBroken THEN TRUE ELSE gotErrors
    /\ UNCHANGED <<tr, knowOs, isWindows, call, pc, session, remote, pipes,
                   delivered, result>>
    /\ UNCHANGED <<connVars, procVars>>

\* ---- The stdin writer (winrm.go 281-285, 206-214; the ssh session's copier)
StdinPump ==
    /\ pumps.in = "run"
    /\ call.stdin # "endless"
    /\ pumps' = [pumps EXCEPT !.in = "done"]
    /\ session' = [session EXCEPT !.stdin = "closed"]
    /\ UNCHANGED <<tr, knowOs, isWindows, call, pc, remote, pipes, gotErrors,
                   delivered, result>>
    /\ UNCHANGED <<connVars, procVars>>

\* ---- session.Wait() / command.Wait() returns
\* ssh.Session.Wait closes the pipe that feeds its stdin copier, which ends it.
CommandWait ==
    /\ pc = "waiting"
    /\ remote.state \in {"exited", "aborted"}
    /\ pc' = "joining"
    /\ IF tr = "SSH" /\ pumps.in = "run"
       THEN /\ pumps' = [pumps EXCEPT !.in = "done"]
            /\ session' = [session EXCEPT !.stdin = "closed"]
       ELSE UNCHANGED <<pumps, session>>
    /\ UNCHANGED <<tr, knowOs, isWindows, call, remote, pipes,
                   gotErrors, delivered, result>>
    /\ UNCHANGED <<connVars, procVars>>

\* JoinReady with the stderr pump left out of the wait group
JoinReadyWithoutStderr(p) == p.in # "run" /\ p.out # "run"

\* wg.Wait(): every goroutine the call started has finished
JoinReady(p) == p.in # "run" /\ p.out # "run" /\ p.err # "run"

\* session.Wait()'s error: the exit status was not 0, or none arrived
WaitFailed == remote.state # "exited" \/ remote.exit # 0

\* command.ExitCode()
ExitCode == IF remote.state = "exited" THEN remote.exit ELSE 0

\* SSHExecResult with the stderr rule applied whatever the OS
SSHExecResultAnyOS(waitFailed, allowWinStderr, got) ==
    IF waitFailed THEN "error"
    ELSE IF ~allowWinStderr /\ got THEN "ErrCommandFailed"
    ELSE "nil"

\* ssh.go 597-605
SSHExecResult(waitFailed, allowWinStderr, got) ==
    IF waitFailed THEN "error"
    ELSE IF knowOs /\ isWindows /\ (~allowWinStderr /\ got) THEN "ErrCommandFailed"
    ELSE "nil"

\* WinRMExecResult with allowWinStderr ignored
WinRMExecResultStrict(ec, allowWinStderr, got) ==
    IF ec > 0 THEN "ErrCommandFailed"
    ELSE IF got THEN "ErrCommandFailed"
    ELSE "nil"

\* winrm.go 334-341
WinRMExecResult(ec, allowWinStderr, got) ==
    IF ec > 0 THEN "ErrCommandFailed"
    ELSE IF ~allowWinStderr /\ got THEN "ErrCommandFailed"
    ELSE "nil"

\* winrm.go 228-233
CommandWaitResult(ec) == IF ec # 0 THEN "ErrCommandFailed" ELSE "nil"

\* ssh.Session.Wait: an *ssh.ExitError for a non-zero exit status
SessionWaitResult(waitFailed) ==
    IF remote.state # "exited" THEN "error"
    ELSE IF waitFailed THEN "ExitError"
    ELSE "nil"

\* ---- The call passes its wait barrier and returns
Join ==
    /\ pc = "joining"
    /\ JoinReady(pumps)
    /\ IF call.method = "Exec"
       THEN Return(IF tr = "SSH"
                   THEN SSHExecResult(WaitFailed, call.allowWinStderr, gotErrors)
                   ELSE WinRMExecResult(ExitCode, call.allowWinStderr, gotErrors),
                   [session EXCEPT !.state = "closed"])
       ELSE Return(IF tr = "SSH"
                   THEN SessionWaitResult(WaitFailed)
                   ELSE CommandWaitResult(ExitCode),
                   [session EXCEPT !.state = IF tr = "WinRM" THEN "closed" ELSE @])
    /\ UNCHANGED <<tr, knowOs, isWindows, call, remote, pipes, pumps, gotErrors,
                   delivered>>
    /\ UNCHANGED <<connVars, procVars>>

\* connection.go 227-237: Connection.Exec wraps any error of client.Exec
ConnectionExec(err) == IF err # "nil" THEN "ErrCommandFailed" ELSE "nil"

\* ---- SSH.IsWindows (ssh.go 232-246)
\* the server version string contains "Windows"
IsWindowsByVersion ==
    /\ tr = "SSH"
    /\ sshClient = "open"
    /\ pc = "idle"
    /\ ~knowOs
    /\ isWindows' = TRUE
    /\ knowOs' = TRUE
    /\ UNCHANGED <<tr, call, pc, session, remote, pipes, pumps, gotErrors,
                   delivered, result>>
    /\ UNCHANGED <<connVars, procVars>>

\* it does not: c.Exec("cmd.exe /c exit 0")
IsWindowsProbe ==
    /\ ~knowOs
    /\ \E o \in {"ok", "session", "start"} : SSHExec(IsWindowsCall, o)

\* the probe returned
IsWindowsProbed ==
    /\ pc = "returned"
    /\ call.caller = "IsWindows"
    /\ isWindows' = (result.err = "nil")
    /\ knowOs' = TRUE
    /\ pc' = "idle"
    /\ call' = NoCall
    /\ session' = NoSession
    /\ remote' = NoRemote
    /\ pipes' = NoPipes
    /\ pumps' = NoPumps
    /\ gotErrors' = FALSE
    /\ delivered' = NoDelivered
    /\ result' = NoResult
    /\ UNCHANGED tr
    /\ UNCHANGED <<connVars, procVars>>

\* The caller has seen the result; the next call starts afresh.
NextCall ==
    /\ pc = "returned"
    /\ call.caller = "user"
    /\ pc' = "idle"
    /\ call' = NoCall
    /\ session' = NoSession
    /\ remote' = NoRemote
    /\ pipes' = NoPipes
    /\ pumps' = NoPumps
    /\ gotErrors' = FALSE
    /\ delivered' = NoDelivered
    /\ result' = NoResult
    /\ UNCHANGED <<tr, knowOs, isWindows>>
    /\ UNCHANGED <<connVars, procVars>>

\* ---- Connection.Disconnect (connection.go 376-381), called by another
\* goroutine while a call is in flight. SSH.Disconnect closes the client and
\* with it the session's channel: no exit status will arrive any more.
\* WinRM.Disconnect only forgets the client.
ExecDisconnect ==
    /\ pc \in {"waiter", "waiting", "joining"}
    /\ client # "nil"
    /\ client' = "nil"
    /\ lastOp' = "Disconnect"
    /\ discSince' = TRUE
    /\ sshClient' = IF client = "SSH" THEN "closed" ELSE sshClient
    /\ winrmClient' = IF client = "WinRM" THEN "nil" ELSE winrmClient
    /\ remote' = IF client = "SSH" /\ remote.state = "running"
                 THEN [remote EXCEPT !.state = "aborted"]
                 ELSE remote
    /\ UNCHANGED <<slots, OSVersion, sudofunc, localConnected, fault, lastConnect,
                   probeOk, picked, ret, unclosed>>
    /\ UNCHANGED <<tr, knowOs, isWindows, call, pc, session, pipes, pumps,
                   gotErrors, delivered, result>>
    /\ UNCHANGED procVars

Failures == {"ok", "session", "pty", "start", "stdin"}

NextExec ==
    \/ \E c \in ExecCalls, o \in Failures : SSHExec(c, o)
    \/ \E c \in ExecCalls, o \in Failures : WinRMExec(c, o)
    \/ \E c \in ExecStreamsCalls, o \in Failures : SSHExecStreams(c, o)
    \/ \E c \in ExecStreamsCalls, o \in Failures : WinRMExecStreams(c, o)
    \/ WaiterWait
    \/ RemoteWriteStdout
    \/ RemoteWriteStderr
    \/ RemoteExit
    \/ RemoteAbort
    \/ \E tooLong \in BOOLEAN : StdoutPump(tooLong)
    \/ StdoutPumpEnd
    \/ \E tooLong \in BOOLEAN : StderrPump(tooLong)
    \/ StderrPumpEnd
    \/ StdinPump
    \/ CommandWait
    \/ Join
    \/ IsWindowsByVersion
    \/ IsWindowsProbe
    \/ IsWindowsProbed
    \/ NextCall

\* The probe outcomes the engine's hosts are drawn from: none succeeds, or one.
ExecProbeSets(os) ==
    IF os = "windows" THEN SUBSET {sudoCheckWindows} ELSE {{}, {"sudo"}}

\* A connected Connection, as a successful Connect leaves it.
ExecConnInit ==
    /\ slots = [WinRM |-> tr = "WinRM", Localhost |-> FALSE, SSH |-> tr = "SSH"]
    /\ client = tr
    /\ OSVersion \in OSIds(tr)
    /\ \E ok \in ExecProbeSets(OSVersion), order \in CheckOrders :
         /\ probeOk = ok
         /\ picked = configureSudo(OSVersion, ok, order)
         /\ sudofunc = picked
    /\ sshClient = IF tr = "SSH" THEN "open" ELSE "nil"
    /\ winrmClient = IF tr = "WinRM" THEN "set" ELSE "nil"
    /\ localConnected = FALSE
    /\ fault = FALSE
    /\ lastOp = "Connect"
    /\ lastConnect = "ok"
    /\ discSince = FALSE
    /\ ret = NoRet
    /\ unclosed = {}

\* No call in flight; the OS of an SSH host not yet probed.
ExecIdle ==
    /\ knowOs = FALSE
    /\ isWindows = FALSE
    /\ call = NoCall
    /\ pc = "idle"
    /\ session = NoSession
    /\ remote = NoRemote
    /\ pipes = NoPipes
    /\ pumps = NoPumps
    /\ gotErrors = FALSE
    /\ delivered = NoDelivered
    /\ result = NoResult

\* No SSH struct has begun to connect; the package-level state as declared.
ProcIdle ==
    /\ ssh = <<>>
    /\ identityFiles = <<>>
    /\ authMethodCache = <<>>
    /\ dummyhostKeyPaths = <<>>
    /\ globalOnce = FALSE
    /\ knownHostsMU = "unlocked"
    /\ reads = <<>>

Init == ConnInit /\ tr = "none" /\ ExecIdle /\ ProcIdle

Spec == Init /\ [][Next]_vars

InitExec == tr \in {"SSH", "WinRM"} /\ ExecIdle /\ ExecConnInit /\ ProcIdle

SpecExec == InitExec /\ [][NextExec]_vars

\* Calls that another goroutine may cut short by Disconnect. The goroutines
\* of the call are scheduled fairly; the remote command owes no progress.
NextCancel == NextExec \/ ExecDisconnect

CallProgress ==
    /\ WF_vars(\E tooLong \in BOOLEAN : StdoutPump(tooLong))
    /\ WF_vars(StdoutPumpEnd)
    /\ WF_vars(\E tooLong \in BOOLEAN : StderrPump(tooLong))
    /\ WF_vars(StderrPumpEnd)
    /\ WF_vars(StdinPump)
    /\ WF_vars(CommandWait)
    /\ WF_vars(Join)

SpecCancel == InitExec /\ [][NextCancel]_vars /\ CallProgress

----------------------------------------------------------------------------
(* What the transports' Connect derive from the host's configuration       *)

\* Every variable but ret
connState == <<slots, client, OSVersion, sudofunc, sshClient, winrmClient,
               localConnected, fault, lastOp, lastConnect, discSince, probeOk,
               picked, unclosed>>

\* ---- WinRM.Connect's transport decorator (winrm.go 148, 158-164)
TransportDecorator(useNTLM, useHTTPS, certLen) ==
    LET ntlm == IF useNTLM THEN "ClientNTLM" ELSE "default"
    IN  IF useHTTPS /\ certLen > 0 THEN "ClientAuthRequest" ELSE ntlm

\* WinRM.Connect has reached the choice of the decorator.
WinRMDecorate(useNTLM, useHTTPS, certLen) ==
    /\ slots.WinRM
    /\ ret' = [op |-> "TransportDecorator", useNTLM |-> useNTLM,
               useHTTPS |-> useHTTPS, certLen |-> certLen,
               decorator |-> TransportDecorator(useNTLM, useHTTPS, certLen)]
    /\ UNCHANGED <<connState, execVars, procVars>>

\* ---- SSH.hostkeyCallback (ssh.go 256-308)
\* A path is its sequence of segments; "~" is the user's home, "~bob" another
\* user's. The empty string is the empty sequence.
DefaultKnownHostsPath == <<"~", ".ssh", "known_hosts">>

\* homeDir(): the home directory, or "err"
HomeDirs == {"/home/u", "err"}

\* expandPath (ssh.go 76-92)
expandPath(path, home) ==
    IF path[1] \notin {"~", "~bob"} THEN [err |-> NilErr, path |-> path]
    ELSE IF path[1] = "~bob"
         THEN [err |-> <<"ErrNotImplemented">>, path |-> <<>>]
    ELSE IF home = "err" THEN [err |-> <<"ErrOS">>, path |-> <<>>]
    ELSE [err |-> NilErr, path |-> <<home>> \o Tail(path)]

\* A value of the SSH config holds one path, or several separated by spaces.
ConfigValues ==
    { <<<<"~", "kh">>>>, <<<<"~bob", "kh">>>>, <<<<"/etc", "kh">>>>,
      <<<<"~bob", "kh">>, <<"/etc", "kh2">>>> }

\* The values getConfigAll may return for UserKnownHostsFile
KnownHostsFiles ==
    {<<>>} \cup { <<v>> : v \in ConfigValues }
           \cup { <<v, w>> : v \in ConfigValues, w \in {<<<<"~", "kh">>>>} }

\* shlex.Split(strings.Join(kfs, " ")): the paths of all values, in order
RECURSIVE SplitJoined(_)
SplitJoined(kfs) ==
    IF kfs = <<>> THEN <<>> ELSE Head(kfs) \o SplitJoined(Tail(kfs))

\* ssh.go 287-293: the expansion of the first file that expands, "" if none
RECURSIVE FirstExpanded(_, _)
FirstExpanded(files, home) ==
    IF files = <<>> THEN <<>>
    ELSE IF expandPath(Head(files), home).err = NilErr
         THEN expandPath(Head(files), home).path
    ELSE FirstExpanded(Tail(files), home)

\* The host-key callbacks, and no callback but an error
Callback(kind, key, path, permissive) ==
    [kind |-> kind, key |-> key, path |-> path, permissive |-> permissive]

CallbackError == Callback("error", "", <<>>, FALSE)

\* knownhostsCallback (ssh.go 248-254); `fileOk`: the file can be used
knownhostsCallback(path, permissive, fileOk) ==
    IF fileOk THEN Callback("KnownHostsFile", "", path, permissive)
    ELSE CallbackError

\* The inputs of hostkeyCallback: the HostKey field, the SSH config's
\* StrictHostkeyChecking and UserKnownHostsFile values, SSH_KNOWN_HOSTS,
\* the home directory, and whether the known-hosts file can be used.
HostkeyInputs ==
    [HostKey : {"", "ssh-ed25519 AAAA"},
     strict : {<<>>, <<"no">>, <<"yes">>, <<"yes", "no">>},
     env : {[set |-> FALSE, path |-> <<>>], [set |-> TRUE, path |-> <<>>],
            [set |-> TRUE, path |-> <<"/env", "kh">>]},
     kfs : KnownHostsFiles,
     home : HomeDirs,
     fileOk : BOOLEAN]

\* hostkeyCallback with the SSH config asked before the environment
hostkeyCallbackConfigFirst(c) ==
    LET permissive == Len(c.strict) > 0 /\ c.strict[1] = "no"
        khPath == FirstExpanded(SplitJoined(c.kfs), c.home)
        defaultPath == expandPath(DefaultKnownHostsPath, c.home)
    IN  IF c.HostKey # "" THEN Callback("StaticKey", c.HostKey, <<>>, FALSE)
        ELSE IF khPath # <<>> THEN knownhostsCallback(khPath, permissive, c.fileOk)
        ELSE IF c.env.set
             THEN IF c.env.path = <<>>
                  THEN Callback("InsecureIgnore", "", <<>>, FALSE)
                  ELSE knownhostsCallback(c.env.path, permissive, c.fileOk)
        ELSE IF defaultPath.err # NilErr THEN CallbackError
        ELSE knownhostsCallback(defaultPath.path, permissive, c.fileOk)

hostkeyCallback(c) ==
    LET permissive == Len(c.strict) > 0 /\ c.strict[1] = "no"
        khPath == FirstExpanded(SplitJoined(c.kfs), c.home)
        defaultPath == expandPath(DefaultKnownHostsPath, c.home)
    IN  IF c.HostKey # "" THEN Callback("StaticKey", c.HostKey, <<>>, FALSE)
        ELSE IF c.env.set
             THEN IF c.env.path = <<>>
                  THEN Callback("InsecureIgnore", "", <<>>, FALSE)
                  ELSE knownhostsCallback(c.env.path, permissive, c.fileOk)
        ELSE IF khPath # <<>> THEN knownhostsCallback(khPath, permissive, c.fileOk)
        ELSE IF defaultPath.err # NilErr THEN CallbackError
        ELSE knownhostsCallback(defaultPath.path, permissive, c.fileOk)

\* SSH.clientConfig asks for the callback (ssh.go 315-319).
HostkeyCallback(c) ==
    /\ slots.SSH
    /\ ret' = [op |-> "hostkeyCallback", input |-> c, callback |-> hostkeyCallback(c)]
    /\ UNCHANGED <<connState, execVars, procVars>>

NextConfig ==
    \/ \E useNTLM, useHTTPS \in BOOLEAN, certLen \in {0, 1} :
         WinRMDecorate(useNTLM, useHTTPS, certLen)
    \/ \E c \in HostkeyInputs : HostkeyCallback(c)

\* A host with one slot populated, not yet connected.
InitConfig ==
    /\ Init
    /\ slots \in { [WinRM |-> TRUE, Localhost |-> FALSE, SSH |-> FALSE],
                   [WinRM |-> FALSE, Localhost |-> FALSE, SSH |-> TRUE] }

SpecConfig == InitConfig /\ [][NextConfig]_vars

----------------------------------------------------------------------------
(* SSH.Connect of the hosts of one process, each on a goroutine of its own. *)
(* A path is its sequence of segments, $HOME is /home/u, a *string is <<>>  *)
(* for nil and <<s>> for a pointer to s.                                    *)

\* The SSH structs of the process, named by their Address
SSHIds == {"a.example", "b.example"}

\* var defaultKeypaths (ssh.go 52)
defaultKeypaths ==
    << <<"~", ".ssh", "id_rsa">>, <<"~", ".ssh", "identity">>,
       <<"~", ".ssh", "id_dsa">> >>

\* The disk, as os.Stat and os.ReadFile find it: what a path holds.
FileKind(path) ==
    CASE path = <<"/home/u", ".ssh", "id_rsa">>     -> "encrypted"
      [] path = <<"/home/u", ".ssh", "id_rsa.pub">> -> "public"
      [] path = <<"/home/u", ".ssh", "id_dsa">>     -> "private"
      [] path = <<"/home/u", "junk">>               -> "garbage"
      [] path = <<"/home/u", "keys">>               -> "dir"
      [] OTHER                                      -> "missing"

\* The regular files of the disk
Files ==
    { <<"/home/u", ".ssh", "id_rsa">>, <<"/home/u", ".ssh", "id_rsa.pub">>,
      <<"/home/u", ".ssh", "id_dsa">>, <<"/home/u", "junk">> }

\* The key a key file holds
KeyName(path) ==
    CASE path = <<"/home/u", ".ssh", "id_rsa">>     -> "id_rsa"
      [] path = <<"/home/u", ".ssh", "id_rsa.pub">> -> "id_rsa"
      [] path = <<"/home/u", ".ssh", "id_dsa">>     -> "id_dsa"
      [] OTHER                                      -> "none"

\* expandAndValidatePath (ssh.go 94-113): the path is "" with every error
expandAndValidatePath(path) ==
    IF Len(path) = 0
    THEN [err |-> <<"ErrInvalidPath", "path is empty">>, path |-> <<>>]
    ELSE LET e == expandPath(path, "/home/u")
         IN  IF e.err # NilErr THEN [err |-> e.err, path |-> <<>>]
             ELSE IF FileKind(e.path) = "missing"
                  THEN [err |-> <<"ErrInvalidPath", "stat">>, path |-> <<>>]
             ELSE IF FileKind(e.path) = "dir"
                  THEN [err |-> <<"ErrInvalidPath", "is a directory">>, path |-> <<>>]
             ELSE [err |-> NilErr, path |-> e.path]

\* initGlobalDefaults (ssh.go 125-133): what it appends to dummyhostKeyPaths
\* for the IdentityFile values of the non-existent host
RECURSIVE initGlobalDefaults(_)
initGlobalDefaults(dummyHostIdentityFiles) ==
    IF dummyHostIdentityFiles = <<>> THEN <<>>
    ELSE LET v == expandAndValidatePath(Head(dummyHostIdentityFiles))
         IN  (IF v.err # NilErr THEN <<v.path>> ELSE <<>>)
                 \o initGlobalDefaults(Tail(dummyHostIdentityFiles))

\* findUniq (ssh.go 135-149): the first entry of a that b does not hold
RECURSIVE findUniq(_, _)
findUniq(a, b) ==
    IF a = <<>> THEN [uniq |-> <<>>, found |-> FALSE]
    ELSE IF \A i \in 1..Len(b) : b[i] # Head(a)
         THEN [uniq |-> Head(a), found |-> TRUE]
    ELSE findUniq(Tail(a), b)

\* ssh.go 171-179: the expansions of the paths that validate, in order
RECURSIVE ValidatedPaths(_)
ValidatedPaths(paths) ==
    IF paths = <<>> THEN <<>>
    ELSE LET v == expandAndValidatePath(Head(paths))
         IN  (IF v.err = NilErr THEN <<v.path>> ELSE <<>>)
                 \o ValidatedPaths(Tail(paths))

\* The body of c.once.Do in SSH.SetDefaults (ssh.go 154-186): the struct after
\* it; `idf` is what keypathsFromConfig returns for it and `dummy` the global
\* default paths
SetDefaultsOnce(c, idf, dummy) ==
    IF c.KeyPath # <<>> /\ c.KeyPath[1] # <<>>
    THEN LET v == expandAndValidatePath(c.KeyPath[1])
         IN  [c EXCEPT !.keyPaths = IF v.err = NilErr THEN @ \o <<v.path>> ELSE @]
    ELSE LET paths == IF Len(idf) = 0 THEN defaultKeypaths ELSE idf
             kp == c.keyPaths \o ValidatedPaths(paths)
             u == findUniq(kp, dummy)
         IN  [c EXCEPT !.keyPaths = kp,
                       !.KeyPath = IF u.found THEN <<u.uniq>> ELSE <<>>]

\* SSH.SetDefaults (ssh.go 152-187): globalOnce, then the struct's own once.
\* The user calls it (through Connection.SetDefaults), and so does SSH.Connect
\* as its first step (ssh.go 369), which then goes on.
SSHSetDefaults(h, connect) ==
    /\ IF connect THEN ssh[h].pc = "idle" ELSE ssh[h].pc \in {"idle", "done"}
    /\ globalOnce' = TRUE
    /\ dummyhostKeyPaths' =
           IF globalOnce THEN dummyhostKeyPaths
           ELSE dummyhostKeyPaths \o initGlobalDefaults(identityFiles.dummy)
    /\ LET c == IF ssh[h].once THEN ssh[h]
                ELSE [SetDefaultsOnce(ssh[h], identityFiles.host[h],
                                      dummyhostKeyPaths')
                        EXCEPT !.once = TRUE]
       IN  ssh' = [ssh EXCEPT ![h] = IF connect THEN [c EXCEPT !.pc = "hostkey"] ELSE c]
    /\ UNCHANGED <<connVars, execVars, identityFiles, authMethodCache,
                   knownHostsMU, reads>>

\* ---- Auth assembly (ssh.go 310-365, 414-473)
\* What agent.Signers() may return, each signer named by its key; the empty
\* list also when the agent cannot be reached
AgentSigners == { <<>>, <<"other">>, <<"other", "id_rsa">> }

\* pubkeySigner (ssh.go 414-427); a method is ssh.PublicKeys of its signers
pubkeySigner(signers, key) ==
    IF Len(signers) = 0
    THEN [err |-> <<"ErrCantConnect", "signer not found for public key">>,
          method |-> [signers |-> <<>>]]
    ELSE IF \E i \in 1..Len(signers) : signers[i] = key
         THEN [err |-> NilErr, method |-> [signers |-> <<key>>]]
    ELSE [err |-> <<"ErrAuthFailed", "public key not known by agent">>,
          method |-> [signers |-> <<>>]]

\* pkeySigner (ssh.go 429-473) for a host with that PasswordCallback ("nil",
\* or "good": it returns the passphrase), and the files it read on the way
RECURSIVE pkeySigner(_, _, _)
pkeySigner(signers, callback, path) ==
    LET kind == FileKind(path)
        pub == pkeySigner(signers, callback, [path EXCEPT ![Len(path)] = @ \o ".pub"])
        fromFile == [err |-> NilErr, method |-> [signers |-> <<KeyName(path)>>],
                     read |-> <<path>>]
        cantParse == [err |-> <<"ErrCantConnect", "can't parse keyfile">>,
                      method |-> [signers |-> <<>>], read |-> <<path>>]
    IN  CASE kind \in {"missing", "dir"} ->
               [err |-> <<"ErrCantConnect", "read identity file">>,
                method |-> [signers |-> <<>>], read |-> <<>>]
          [] kind = "public" ->
               LET s == pubkeySigner(signers, KeyName(path))
               IN  [err |-> s.err, method |-> s.method, read |-> <<path>>]
          [] kind = "private" -> fromFile
          [] kind = "encrypted" ->
               IF Len(signers) > 0 /\ pub.err = NilErr
               THEN [pub EXCEPT !.read = <<path>> \o @]
               ELSE LET read == <<path>> \o (IF Len(signers) > 0 THEN pub.read ELSE <<>>)
                    IN  IF callback = "nil" THEN [cantParse EXCEPT !.read = read]
                        ELSE [fromFile EXCEPT !.read = read]
          [] kind = "garbage" -> cantParse

\* hostkeyCallback with a HostKey: no lock is taken (ssh.go 257-260)
HostkeyStatic(h) ==
    /\ ssh[h].pc = "hostkey"
    /\ ssh[h].HostKey # ""
    /\ ssh' = [ssh EXCEPT ![h].pc = "agent", ![h].hkc = "StaticKey"]
    /\ UNCHANGED <<connVars, execVars, identityFiles, authMethodCache,
                   dummyhostKeyPaths, globalOnce, knownHostsMU, reads>>

\* knownHostsMU.Lock() (ssh.go 262)
HostkeyLock(h) ==
    /\ ssh[h].pc = "hostkey"
    /\ ssh[h].HostKey = ""
    /\ knownHostsMU = "unlocked"
    /\ knownHostsMU' = h
    /\ ssh' = [ssh EXCEPT ![h].pc = "building"]
    /\ UNCHANGED <<connVars, execVars, identityFiles, authMethodCache,
                   dummyhostKeyPaths, globalOnce, reads>>

\* The callback over the known-hosts file is built, which reads or creates
\* the file, and the deferred Unlock runs (ssh.go 263-308); with an error
\* Connect returns (ssh.go 373-376)
HostkeyBuilt(h, fileOk) ==
    /\ ssh[h].pc = "building"
    /\ knownHostsMU' = "unlocked"
    /\ LET cb == hostkeyCallback(
                     [HostKey |-> ssh[h].HostKey, strict |-> <<>>,
                      env |-> [set |-> FALSE, path |-> <<>>], kfs |-> <<>>,
                      home |-> "/home/u", fileOk |-> fileOk])
       IN  ssh' = [ssh EXCEPT ![h] =
                     IF cb = CallbackError
                     THEN [@ EXCEPT !.pc = "done",
                                    !.err = Wrapf("ErrCantConnect", "create config",
                                                  <<"ErrCantConnect",
                                                    "create host key validator">>)]
                     ELSE [@ EXCEPT !.pc = "agent", !.hkc = cb.kind]]
    /\ UNCHANGED <<connVars, execVars, identityFiles, authMethodCache,
                   dummyhostKeyPaths, globalOnce, reads>>

\* agentClient() and agent.Signers() (ssh.go 321-330)
AgentListed(h, signers) ==
    /\ ssh[h].pc = "agent"
    /\ ssh' = [ssh EXCEPT ![h].pc = "keys", ![h].signers = signers, ![h].i = 1]
    /\ UNCHANGED <<connVars, execVars, identityFiles, authMethodCache,
                   dummyhostKeyPaths, globalOnce, knownHostsMU, reads>>

\* authMethodCache.Load(keyPath) (ssh.go 333-344)
CacheLoad(h) ==
    /\ ssh[h].pc = "keys"
    /\ ssh[h].i <= Len(ssh[h].keyPaths)
    /\ LET am == authMethodCache[ssh[h].keyPaths[ssh[h].i]]
       IN  ssh' = [ssh EXCEPT ![h] =
                     IF ~am.stored THEN [@ EXCEPT !.pc = "signer"]
                     ELSE [@ EXCEPT !.i = @ + 1,
                                    !.auth = IF am.err = NilErr
                                             THEN @ \o <<am.method>> ELSE @]]
    /\ UNCHANGED <<connVars, execVars, identityFiles, authMethodCache,
                   dummyhostKeyPaths, globalOnce, knownHostsMU, reads>>

\* c.pkeySigner(signers, keyPath) and authMethodCache.Store (ssh.go 345-353)
SignerStored(h) ==
    /\ ssh[h].pc = "signer"
    /\ LET keyPath == ssh[h].keyPaths[ssh[h].i]
           s == pkeySigner(ssh[h].signers, ssh[h].PasswordCallback, keyPath)
       IN  /\ authMethodCache' =
                 [authMethodCache EXCEPT ![keyPath] =
                     [stored |-> TRUE, err |-> s.err, method |-> s.method]]
           /\ reads' = [f \in Files |->
                          reads[f] + Cardinality({k \in DOMAIN s.read : s.read[k] = f})]
           /\ ssh' = [ssh EXCEPT ![h].pc = "keys", ![h].i = @ + 1,
                                 ![h].auth = IF s.err = NilErr
                                             THEN @ \o <<s.method>> ELSE @]
    /\ UNCHANGED <<connVars, execVars, identityFiles, dummyhostKeyPaths,
                   globalOnce, knownHostsMU>>

\* AuthAssembled with the agent's signers preferred to the key files
AuthAssembledAgentFirst(h) ==
    /\ ssh[h].pc = "keys"
    /\ ssh[h].i > Len(ssh[h].keyPaths)
    /\ ssh' = [ssh EXCEPT ![h] =
                 IF Len(@.signers) > 0
                 THEN [@ EXCEPT !.pc = "dial", !.auth = <<[signers |-> ssh[h].signers]>>]
                 ELSE IF Len(@.auth) > 0 THEN [@ EXCEPT !.pc = "dial"]
                 ELSE [@ EXCEPT !.pc = "done",
                                !.err = Wrapf("ErrCantConnect", "create config",
                                              <<"ErrCantConnect",
                                                "no usable authentication method found">>)]]
    /\ UNCHANGED <<connVars, execVars, identityFiles, authMethodCache,
                   dummyhostKeyPaths, globalOnce, knownHostsMU, reads>>

\* The key list is through (ssh.go 356-364); with an error Connect returns
\* (ssh.go 373-376)
AuthAssembled(h) ==
    /\ ssh[h].pc = "keys"
    /\ ssh[h].i > Len(ssh[h].keyPaths)
    /\ ssh' = [ssh EXCEPT ![h] =
                 IF Len(@.auth) > 0 THEN [@ EXCEPT !.pc = "dial"]
                 ELSE IF Len(@.signers) = 0
                      THEN [@ EXCEPT !.pc = "done",
                                     !.err = Wrapf("ErrCantConnect", "create config",
                                                   <<"ErrCantConnect",
                                                     "no usable authentication method found">>)]
                 ELSE [@ EXCEPT !.pc = "dial",
                                !.auth = <<[signers |-> ssh[h].signers]>>]]
    /\ UNCHANGED <<connVars, execVars, identityFiles, authMethodCache,
                   dummyhostKeyPaths, globalOnce, knownHostsMU, reads>>

\* ssh.Dial (ssh.go 381): the connection is refused, or the handshake begins
\* and calls the host-key callback, which for a known-hosts file checks and
\* may update the file
Dial(h, outcome) ==
    /\ ssh[h].pc = "dial"
    /\ ssh' = [ssh EXCEPT ![h] =
                 IF outcome = "refused"
                 THEN [@ EXCEPT !.pc = "done", !.dial = outcome,
                                !.err = SSHDialResult([bastion |-> <<>>, dial |-> outcome],
                                                      "ssh dial")]
                 ELSE [@ EXCEPT !.pc = "handshake", !.dial = outcome]]
    /\ UNCHANGED <<connVars, execVars, identityFiles, authMethodCache,
                   dummyhostKeyPaths, globalOnce, knownHostsMU, reads>>

\* The callback returned and with it ssh.Dial (ssh.go 381-389)
Handshaken(h) ==
    /\ ssh[h].pc = "handshake"
    /\ ssh' = [ssh EXCEPT ![h] =
                 [@ EXCEPT !.pc = "done",
                           !.client = IF ssh[h].dial = "ok" THEN "open" ELSE "nil",
                           !.err = SSHDialResult(
                                       [bastion |-> <<>>, dial |-> ssh[h].dial],
                                       "ssh dial")]]
    /\ UNCHANGED <<connVars, execVars, identityFiles, authMethodCache,
                   dummyhostKeyPaths, globalOnce, knownHostsMU, reads>>

NextSSH ==
    \/ \E h \in SSHIds, connect \in BOOLEAN : SSHSetDefaults(h, connect)
    \/ \E h \in SSHIds : HostkeyStatic(h)
    \/ \E h \in SSHIds : HostkeyLock(h)
    \/ \E h \in SSHIds, fileOk \in BOOLEAN : HostkeyBuilt(h, fileOk)
    \/ \E h \in SSHIds, signers \in AgentSigners : AgentListed(h, signers)
    \/ \E h \in SSHIds : CacheLoad(h)
    \/ \E h \in SSHIds : SignerStored(h)
    \/ \E h \in SSHIds : AuthAssembled(h)
    \/ \E h \in SSHIds, outcome \in DialOutcomes : Dial(h, outcome)
    \/ \E h \in SSHIds : Handshaken(h)

\* What the user and the SSH config say of a host: KeyPath (none, the empty
\* string, a key), the IdentityFile values of the host's own section,
\* PasswordCallback, HostKey. a.example may have a KeyPath or a section of its
\* own (a host with a KeyPath never reads IdentityFile: its section is listed
\* as empty only); b.example has neither.
HostSpecs(h) ==
    { c \in [KeyPath : { <<>>, << <<>> >>, << <<"~", ".ssh", "id_dsa">> >> },
             own : { <<>>, << <<"~", "junk">>, <<"~", ".ssh", "id_rsa">>,
                              <<"~", ".ssh", "id_rsa.pub">> >> },
             PasswordCallback : {"nil", "good"},
             HostKey : {"", "ssh-ed25519 AAAA"}] :
        /\ (c.KeyPath # <<>> /\ c.KeyPath[1] # <<>>) => c.own = <<>>
        /\ h # "a.example" => c.KeyPath = <<>> /\ c.own = <<>> }

\* An SSH slot, nothing called yet; `given` keeps the KeyPath as the user set
\* it. Every host gets the IdentityFile values of
\* the SSH config's global section, the non-existent one too, after those of
\* its own section.
InitSSH ==
    /\ ConnInit
    /\ slots = [WinRM |-> FALSE, Localhost |-> FALSE, SSH |-> TRUE]
    /\ tr = "none"
    /\ ExecIdle
    /\ \E g \in { <<>>, << <<"~", ".ssh", "id_dsa">> >>, << <<"~", "gone">> >> } :
         \E c \in { f \in [SSHIds -> HostSpecs("a.example")] :
                       \A h \in SSHIds : f[h] \in HostSpecs(h) } :
            /\ identityFiles = [dummy |-> g, host |-> [h \in SSHIds |-> c[h].own \o g]]
            /\ ssh = [h \in SSHIds |->
                        [KeyPath |-> c[h].KeyPath, given |-> c[h].KeyPath,
                         PasswordCallback |-> c[h].PasswordCallback,
                         HostKey |-> c[h].HostKey,
                         keyPaths |-> <<>>, once |-> FALSE, client |-> "nil",
                         pc |-> "idle", hkc |-> "none", signers |-> <<>>, i |-> 0,
                         auth |-> <<>>, dial |-> "none", err |-> NilErr]]
    /\ authMethodCache = [f \in Files |-> [stored |-> FALSE, err |-> NilErr,
                                            method |-> [signers |-> <<>>]]]
    /\ dummyhostKeyPaths = <<>>
    /\ globalOnce = FALSE
    /\ knownHostsMU = "unlocked"
    /\ reads = [f \in Files |-> 0]

SpecSSH == InitSSH /\ [][NextSSH]_vars

----------------------------------------------------------------------------
(* SSH.Connect's recursion over the bastions (ssh.go 368-412), on one       *)
(* goroutine. Bastion is a pointer, <<>> for nil: the structs form a graph. *)
(* Of a struct the model keeps where the innermost Connect on it stands;    *)
(* a Connect that calls Connect of a struct further out in the chain finds  *)
(* that struct as the first call did and goes the same way.                 *)

\* Connect is entered on a struct: the user calls it, none being connected or
\* connecting, or the Connect of a struct whose Bastion it is (ssh.go 392)
ConnectCalled(h) ==
    /\ \/ \A x \in SSHIds : ssh[x].pc = "idle"
       \/ \E p \in SSHIds : ssh[p].pc = "call" /\ ssh[p].Bastion = <<h>>
    /\ ssh' = [x \in SSHIds |->
                 IF x = h THEN [ssh[x] EXCEPT !.pc = "config"]
                 ELSE IF ssh[x].pc = "call" THEN [ssh[x] EXCEPT !.pc = "wait"]
                 ELSE ssh[x]]
    /\ UNCHANGED <<connVars, execVars, identityFiles, authMethodCache,
                   dummyhostKeyPaths, globalOnce, knownHostsMU, reads>>

\* defaults.Set and clientConfig are through (ssh.go 369-376); without a
\* Bastion the host is dialled (380-390), with one its Connect is next (392)
ConfigBuilt(h, outcome) ==
    /\ ssh[h].pc = "config"
    /\ (ssh[h].config = "err" \/ ssh[h].Bastion # <<>>) => outcome = "ok"
    /\ ssh' =
         IF ssh[h].config = "err"
         THEN [ssh EXCEPT ![h].pc = "returned",
                          ![h].err = Wrapf("ErrCantConnect", "create config",
                                           <<"ErrCantConnect",
                                             "no usable authentication method found">>)]
         ELSE IF ssh[h].Bastion = <<>>
              THEN [ssh EXCEPT ![h].pc = "returned",
                               ![h].client = IF outcome = "ok" THEN "open" ELSE @,
                               ![h].err = SSHDialResult(
                                              [bastion |-> <<>>, dial |-> outcome],
                                              "ssh dial")]
         ELSE [ssh EXCEPT ![h].pc = "call"]
    /\ UNCHANGED <<connVars, execVars, identityFiles, authMethodCache,
                   dummyhostKeyPaths, globalOnce, knownHostsMU, reads>>

\* c.Bastion.Connect() has returned (ssh.go 392-411): its error goes up, or
\* the bastion's client dials the host and the handshake is made over that
BastionReturned(h, tunnel, outcome) ==
    /\ ssh[h].pc = "wait"
    /\ ssh[ssh[h].Bastion[1]].pc = "returned"
    /\ LET b == ssh[h].Bastion[1]
           err == IF ssh[b].err # NilErr
                  THEN IF ErrorsIs(ssh[b].err, "ErrHostKeyMismatch")
                       THEN Wrapf("ErrCantConnect", "bastion connect", ssh[b].err)
                       ELSE ssh[b].err
                  ELSE IF tunnel = "err"
                       THEN Errorf("bastion dial", <<"dial tcp: connection refused">>)
                  ELSE SSHDialResult([bastion |-> <<b>>, dial |-> outcome],
                                     "bastion client connect")
       IN  /\ ssh[b].err # NilErr => tunnel = "ok"
           /\ (ssh[b].err # NilErr \/ tunnel = "err") => outcome = "ok"
           /\ ssh' = [ssh EXCEPT ![b].pc = "idle", ![b].err = NilErr,
                                 ![h].pc = "returned", ![h].err = err,
                                 ![h].client = IF err = NilErr THEN "open" ELSE @]
    /\ UNCHANGED <<connVars, execVars, identityFiles, authMethodCache,
                   dummyhostKeyPaths, globalOnce, knownHostsMU, reads>>

NextBastion ==
    \/ \E h \in SSHIds : ConnectCalled(h)
    \/ \E h \in SSHIds, outcome \in DialOutcomes : ConfigBuilt(h, outcome)
    \/ \E h \in SSHIds, tunnel \in {"ok", "err"}, outcome \in DialOutcomes :
         BastionReturned(h, tunnel, outcome)

\* The structs: each with no Bastion or any of the structs as its Bastion,
\* and a configuration that clientConfig accepts or not
InitBastion ==
    /\ ConnInit
    /\ slots = [WinRM |-> FALSE, Localhost |-> FALSE, SSH |-> TRUE]
    /\ tr = "none"
    /\ ExecIdle
    /\ ssh \in [SSHIds -> [Bastion : {<<>>} \cup {<<b>> : b \in SSHIds},
                           config : {"ok", "err"}, pc : {"idle"},
                           client : {"nil"}, err : {NilErr}]]
    /\ identityFiles = <<>>
    /\ authMethodCache = <<>>
    /\ dummyhostKeyPaths = <<>>
    /\ globalOnce = FALSE
    /\ knownHostsMU = "unlocked"
    /\ reads = <<>>

\* The goroutine that called Connect is scheduled as long as it can run.
SpecBastion == InitBastion /\ [][NextBastion]_vars /\ WF_vars(NextBastion)

----------------------------------------------------------------------------
(* Properties of the Connection lifecycle, checked under Spec              *)

\* C1: after a Connect that returned an error (the transport's connect or
\* the OS probe failed) IsConnected() is false until a later Connect returns
\* nil; IsConnected() is true only when the most recent Connect returned nil
\* and Disconnect has not been called since.
C1_ConnectedOnlyAfterSuccessfulConnect ==
    /\ lastConnect = "err" => ~IsConnected
    /\ IsConnected => lastConnect = "ok" /\ ~discSince

\* C2: Disconnect is idempotent: in every reachable state and for every
\* transport a call completes without fault and leaves the Connection not
\* connected, and a second call changes nothing.
C2_DisconnectIdempotent ==
    /\ [](lastOp = "Disconnect" => ~fault /\ ~IsConnected)
    /\ [][lastOp = "Disconnect" /\ lastOp' = "Disconnect" => UNCHANGED connVars]_vars

\* The order in which the specification lists the elevation probes.
ListedOrder == <<"root", "sudo", "doas">>

\* C4: on a non-Windows host sudo selection picks the rewriter of the first
\* probe that exits 0 in the order root check, `sudo -n true`, `doas -n true`,
\* so a fixed set of succeeding probes always selects the same rewriter.
C4_FirstProbeInListedOrderWins ==
    (lastOp = "Connect" /\ lastConnect = "ok" /\ OSVersion # "windows")
        => picked = configureSudo(OSVersion, probeOk, ListedOrder)

\* C5: Sudo(cmd) returns the sudo-required error unless an elevation probe
\* succeeded during the most recent successful Connect, and then it rewrites
\* the command with that probe's rewriter.
C5_SudoFollowsMostRecentConnect ==
    \A cmd \in Cmds :
        Sudo(cmd) = IF picked = "nil"
                    THEN [err |-> "ErrSudoRequired", cmd |-> <<>>]
                    ELSE [err |-> "nil", cmd |-> ApplySudofn(picked, cmd)]

----------------------------------------------------------------------------
(* Properties of the exec engine, checked under SpecExec                   *)

\* A call of `method` on transport `t` passed its wait barrier and returned,
\* and the remote command had reported an exit code (remote.exit).
ReturnedWithExit(t, method) ==
    /\ tr = t
    /\ call.method = method
    /\ pc = "returned"
    /\ remote.state = "exited"

\* What the caller of the Connection sees: Exec's error goes through
\* Connection.Exec, the Waiter's through nothing.
Observed ==
    IF call.method = "Exec" THEN ConnectionExec(result.err) ELSE result.err

\* C3: on SSH and on WinRM, for Exec and for ExecStreams, the command started
\* on the remote session is the caller's command as rewritten by the
\* ExecOptions rewriter; it is never started un-rewritten.
C3_StartedCommandIsRewritten ==
    (call.caller = "user" /\ session.started # NoCmd)
        => /\ Command(call).err = "nil"
           /\ session.started = Command(call).cmd

\* C6: an SSH Exec whose session exits 0 returns command-failed if and only
\* if the OS is known, is Windows, allowWinStderr is false and the command
\* wrote to stderr; otherwise stderr output never fails an exit-0 command.
C6_SSHStderrFailsOnlyOnKnownWindows ==
    (ReturnedWithExit("SSH", "Exec") /\ remote.exit = 0)
        => result.err =
             IF knowOs /\ isWindows /\ ~call.allowWinStderr /\ remote.errSent > 0
             THEN "ErrCommandFailed" ELSE "nil"

C6_Witness ==
    /\ ReturnedWithExit("SSH", "Exec") /\ remote.exit = 0
    /\ knowOs /\ isWindows /\ ~call.allowWinStderr /\ remote.errSent > 0
    /\ result.err = "ErrCommandFailed"

\* C7: a WinRM Exec of a command that exits 0 and writes to stderr returns
\* command-failed when allowWinStderr is false and nil when it is true; with
\* no stderr output and exit 0 it returns nil in both cases.
C7_WinRMStderrRule ==
    (ReturnedWithExit("WinRM", "Exec") /\ remote.exit = 0)
        => result.err =
             IF remote.errSent > 0 /\ ~call.allowWinStderr
             THEN "ErrCommandFailed" ELSE "nil"

C7_Witness ==
    /\ ReturnedWithExit("WinRM", "Exec") /\ remote.exit = 0
    /\ remote.errSent > 0 /\ ~call.allowWinStderr
    /\ result.err = "ErrCommandFailed"

\* C8: any non-zero exit code of the remote command, positive or negative,
\* makes SSH Exec, WinRM Exec and Wait() on ExecStreams' waiter fail with
\* command-failed; exit code 0 alone never does.
C8_NonZeroExitIsCommandFailed ==
    (pc = "returned" /\ call.caller = "user" /\ remote.state = "exited")
        => /\ remote.exit # 0 => Observed = "ErrCommandFailed"
           /\ remote.exit = 0 /\ remote.errSent = 0 => Observed = "nil"

\* C9: SSH Exec requests a PTY (xterm, 80x40, ECHO off) before it starts the
\* command if and only if the OS is known, is not Windows and no stdin payload
\* is given; it requests none otherwise, and never during the Windows probe.
C9_PtyIffKnownUnixAndNoStdin ==
    (tr = "SSH" /\ call.method = "Exec" /\ pc # "idle")
        => LET wanted == knowOs /\ ~isWindows /\ call.stdin = ""
               xterm == [term |-> "xterm", width |-> 80, height |-> 40, echo |-> 0]
           IN  /\ session.pty \in {NoPty, xterm}
               /\ session.pty = xterm => wanted
               /\ session.started # NoCmd => (session.pty = xterm <=> wanted)
               /\ call.caller = "IsWindows" => session.pty = NoPty

C9_Witness ==
    /\ tr = "SSH" /\ call.method = "Exec"
    /\ session.started # NoCmd
    /\ session.pty = ExecPty

\* C10: when Exec returns, on SSH and on WinRM, the stdout pump and the
\* stderr pump have finished: no event is delivered after the caller has
\* seen the result.
C10_PumpsJoinedBeforeReturn ==
    (call.method = "Exec" /\ pc = "returned")
        => /\ pumps.out # "run"
           /\ pumps.err # "run"
           /\ delivered = result.delivered

C10_Witness ==
    /\ call.method = "Exec" /\ pc = "returned"
    /\ pumps.out = "done" /\ pumps.err = "done"
    /\ delivered.out > 0 /\ delivered.err > 0

\* C11: in every Exec, on SSH and on WinRM, the session's stdin is closed
\* before Exec returns: with a stdin payload it is closed once the payload is
\* written, so while the command runs stdin is closed or its writer is still
\* at work; with no payload it is closed right after the command starts.
C11_StdinClosedBeforeReturn ==
    (call.method = "Exec" /\ session.started # NoCmd)
        => /\ session.state = "open"
                => session.stdin = "closed" \/ pumps.in = "run"
           /\ (session.state = "open" /\ call.stdin = "")
                => session.stdin = "closed"
           /\ (pc = "returned" /\ remote.state \in {"exited", "aborted"})
                => session.stdin = "closed"

\* C12: Upload returns nil if and only if every step succeeds and the SHA-256
\* the remote filesystem reports for dst equals the SHA-256 of the bytes read
\* from the local file; when the digests differ it returns an error of the
\* checksum-mismatch kind, which no other failure of Upload has.
C12_UploadChecksum ==
    (ret.op = "Upload" /\ lastConnect = "ok")
        => LET stepsOk == ret.connected /\ ret.failAt = "ok"
               same == ret.stored = ret.src
           IN  /\ ret.err = "nil" <=> (stepsOk /\ same)
               /\ (stepsOk /\ ~same) => ret.err = "ErrChecksumMismatch"
               /\ ~stepsOk => ret.err \notin {"nil", "ErrChecksumMismatch"}

\* A handshake that Connect reached failed with a host-key mismatch: with the
\* host itself, direct or through its bastion, or with the bastion.
HostKeyMismatchMet ==
    LET h == ret.host
        onBastion == Len(h.bastion) > 0 /\ h.bastion[1].dial = "mismatch"
    IN  CASE ret.client = "SSH"       -> h.dial = "mismatch" \/ onBastion
          [] ret.client = "WinRM"     -> onBastion
          [] ret.client = "Localhost" -> FALSE

\* C13: when an SSH handshake fails with a host-key mismatch (direct target,
\* bastion, target behind a bastion, SSH bastion of a WinRM host) the error of
\* the transport's Connect and of Connection.Connect has host-key-mismatch in
\* its cause chain, and the SSH transport reports the cant-connect kind; an
\* error of a Connect that met no mismatch never carries host-key-mismatch.
C13_HostKeyMismatchSurvivesWrapping ==
    ret.op = "Connect"
        => IF HostKeyMismatchMet
           THEN /\ ErrorsIs(ret.terr, "ErrHostKeyMismatch")
                /\ ErrorsIs(ret.err, "ErrHostKeyMismatch")
                /\ ErrorsIs(ret.terr, "ErrCantConnect")
                /\ ret.client = "SSH" => ret.terr[1] = "ErrCantConnect"
           ELSE ~ErrorsIs(ret.err, "ErrHostKeyMismatch")

C13_Witness ==
    /\ ret.op = "Connect"
    /\ ret.client = "WinRM"
    /\ Len(ret.host.bastion) > 0 /\ ret.host.bastion[1].dial = "mismatch"
    /\ ErrorsIs(ret.err, "ErrHostKeyMismatch")
    /\ ret.err[1] = "ErrNotConnected"

\* The transport a Connection stands for: the bound one, else the configured
\* one, else the implicit loopback default.
StandsFor ==
    IF client # "nil" THEN client
    ELSE IF configuredClient # "nil" THEN configuredClient
    ELSE "Localhost"

\* C14: Protocol(), Address() and IsWindows() can be called before Connect,
\* after Disconnect and after a failed Connect for every HostSpec, also one
\* with no slot populated: each returns the value of the configured transport
\* (or of the loopback default) and does not fault.
C14_AccessorsSafeBeforeConnect ==
    /\ ret.op \in {"Protocol", "Address", "IsWindows"} => ~fault
    /\ ret.op = "Protocol" => ret.value = ClientProtocol(StandsFor)
    /\ ret.op = "Address" => ret.value = ClientIPAddress(StandsFor)
    /\ (ret.op = "IsWindows" /\ StandsFor = "WinRM") => ret.value = TRUE

\* C15: the transport bound to a Connection is the first non-nil of WinRM,
\* Loopback, SSH in that order, an enabled Loopback when none is configured;
\* once bound it does not change until Disconnect or a failed Connect clears it.
C15_TransportSelection ==
    /\ [](client # "nil"
            => client = IF slots.WinRM THEN "WinRM"
                        ELSE IF slots.Localhost THEN "Localhost"
                        ELSE IF slots.SSH THEN "SSH"
                        ELSE "Localhost")
    /\ [][(client # "nil" /\ client' # client)
            => /\ client' = "nil"
               /\ \/ lastOp' = "Disconnect"
                  \/ lastOp' = "Connect" /\ lastConnect' = "err"]_vars

C15_Witness ==
    /\ slots = [WinRM |-> FALSE, Localhost |-> TRUE, SSH |-> TRUE]
    /\ client = "Localhost"
    /\ lastOp = "SetDefaults"

\* C16: within Connect the steps occur in the order set defaults, transport
\* Connect, OS probe, sudo selection: no OS probe and no sudo probe runs before
\* the transport's Connect has returned nil, sudo probes run only once the OS
\* descriptor is set, and when Connect returns nil the OS descriptor is set
\* and sudo selection has run during the call.
C16_ConnectSequence ==
    ret.op = "Connect"
        => LET st == ret.steps
               At(e) == { i \in 1..Len(st) : st[i] = e }
               Before(a, b) == \A i \in At(a), j \in At(b) : i < j
           IN  /\ At("client.Connect") # {}
               /\ Before("defaults.Set", "client.Connect")
               /\ Before("client.Connect", "GetOSVersion")
               /\ Before("client.Connect", "configureSudo")
               /\ Before("GetOSVersion", "configureSudo")
               /\ (At("GetOSVersion") \cup At("configureSudo")) # {}
                    => ret.terr = NilErr
               /\ At("configureSudo") # {} => OSVersion # "nil"
               /\ ret.err = NilErr
                    => OSVersion # "nil" /\ At("configureSudo") # {}

C16_Witness ==
    /\ ret.op = "Connect"
    /\ ret.err = NilErr
    /\ ret.steps = <<"defaults.Set", "client.Connect", "GetOSVersion", "configureSudo">>
    /\ OSVersion # "nil"

----------------------------------------------------------------------------
(* Properties of the transports' configuration, checked under SpecConfig   *)

\* C18: WinRM.Connect chooses the transport decorator with NTLM precedence:
\* NTLM when useNTLM is set, also with useHTTPS and a client certificate;
\* the client-certificate transport only when useNTLM is false, useHTTPS is
\* true and a certificate is present; the default transport otherwise.
C18_NTLMPrecedence ==
    ret.op = "TransportDecorator"
        => ret.decorator =
             IF ret.useNTLM THEN "ClientNTLM"
             ELSE IF ret.useHTTPS /\ ret.certLen > 0 THEN "ClientAuthRequest"
             ELSE "default"

\* C20: the host-key callback of an SSH host follows the precedence: literal
\* hostKey -> static callback; else the known-hosts path of the environment,
\* empty -> insecure-ignore, non-empty -> known-hosts file on that path; else
\* the first expandable UserKnownHostsFile entry of the SSH config; else the
\* default user known-hosts path. A higher source, when present, wins, and
\* permissive mode is on exactly when StrictHostKeyChecking is `no`.
C20_HostKeyCallbackPrecedence ==
    ret.op = "hostkeyCallback"
        => LET c == ret.input
               cb == ret.callback
               files == SplitJoined(c.kfs)
               Expandable(f) == f[1] # "~bob" /\ (f[1] = "~" => c.home # "err")
               Expanded(f) == IF f[1] = "~" THEN <<c.home>> \o Tail(f) ELSE f
               idx == { i \in 1..Len(files) : Expandable(files[i]) }
               first == CHOOSE i \in idx : \A j \in idx : i <= j
               OnFile(path) ==
                   /\ cb.kind \in {"KnownHostsFile", "error"}
                   /\ c.fileOk => cb.kind = "KnownHostsFile" /\ cb.path = path
           IN  /\ c.HostKey # "" => cb.kind = "StaticKey" /\ cb.key = c.HostKey
               /\ (c.HostKey = "" /\ c.env.set /\ c.env.path = <<>>)
                    => cb.kind = "InsecureIgnore"
               /\ (c.HostKey = "" /\ c.env.set /\ c.env.path # <<>>)
                    => OnFile(c.env.path)
               /\ (c.HostKey = "" /\ ~c.env.set /\ idx # {})
                    => OnFile(Expanded(files[first]))
               /\ (c.HostKey = "" /\ ~c.env.set /\ idx = {} /\ c.home # "err")
                    => OnFile(Expanded(DefaultKnownHostsPath))
               /\ cb.kind = "KnownHostsFile"
                    => (cb.permissive <=> (c.strict # <<>> /\ Head(c.strict) = "no"))

C20_Witness ==
    /\ ret.op = "hostkeyCallback"
    /\ ret.input.HostKey = "" /\ ~ret.input.env.set
    /\ ret.input.kfs = << <<<<"~bob", "kh">>, <<"/etc", "kh2">>>>, <<<<"~", "kh">>>> >>
    /\ ret.input.strict = <<"no">>
    /\ ret.callback = Callback("KnownHostsFile", "", <<"/etc", "kh2">>, TRUE)

----------------------------------------------------------------------------
(* Properties of calls in flight, checked under SpecCancel                 *)

\* C17: when the caller invokes Disconnect while an Exec is in flight, the
\* transport client is closed and the Exec eventually returns (its pumps see
\* EOF and its wait returns an error), on SSH and on WinRM alike.
C17_DisconnectAbortsExec ==
    (call.method = "Exec" /\ pc \in {"waiting", "joining"} /\ client = "nil")
        ~> (pc = "returned")

\* C19: Wait() on the waiter of WinRM ExecStreams returns once the remote
\* command has finished and its output streams have ended, whatever stdin the
\* caller supplied: nil, a reader that reaches EOF, or one that never does
\* (calls that a Disconnect cuts short are left aside).
C19_WinRMWaiterReturns ==
    (tr = "WinRM" /\ call.method = "ExecStreams" /\ pc = "waiting"
        /\ remote.state = "exited")
        ~> (pc = "returned" \/ client = "nil")
----------------------------------------------------------------------------
(* Properties of SSH.Connect, checked under SpecSSH                        *)

\* clientConfig of h went through its key list and returned.
Assembled(h) == ssh[h].pc \in {"dial", "handshake", "done"} /\ ssh[h].i > 0

\* The lists of per-key methods a key list can give: for each path, in the
\* order of the list, what a host of this process can get for it, computed by
\* itself or by another host and cached: a usable method, or a permanent
\* failure, which is left out
RECURSIVE PerKeyMethods(_)
PerKeyMethods(keyPaths) ==
    IF keyPaths = <<>> THEN { <<>> }
    ELSE { (IF s.err = NilErr THEN <<s.method>> ELSE <<>>) \o rest :
             s \in { pkeySigner(signers, ssh[x].PasswordCallback, Head(keyPaths)) :
                       signers \in AgentSigners, x \in SSHIds },
             rest \in PerKeyMethods(Tail(keyPaths)) }

\* C21: when clientConfig has gone through the key list, config.Auth holds the
\* usable methods of the keys in the order of the key list, failures skipped;
\* with no such method and signers in the agent it holds the one method of all
\* agent signers; with neither, Connect has returned an ErrCantConnect and no
\* dial was made.
C21_AuthAssembly ==
    \A h \in SSHIds :
        Assembled(h) =>
            \E methods \in PerKeyMethods(ssh[h].keyPaths) :
                IF methods # <<>> THEN ssh[h].auth = methods
                ELSE IF ssh[h].signers # <<>>
                     THEN ssh[h].auth = <<[signers |-> ssh[h].signers]>>
                ELSE /\ ssh[h].pc = "done"
                     /\ ssh[h].err # NilErr /\ ssh[h].err[1] = "ErrCantConnect"
                     /\ ssh[h].dial = "none"
                     /\ ssh[h].client = "nil"

\* A host has assembled two methods from a key list with a failure in it and
\* goes on to dial, and another has returned for want of any method.
C21_Witness ==
    /\ \E h \in SSHIds :
         /\ Assembled(h)
         /\ ssh[h].pc = "dial"
         /\ Len(ssh[h].auth) >= 2
         /\ Len(ssh[h].auth) < Len(ssh[h].keyPaths)
    /\ \E h \in SSHIds :
         /\ Assembled(h)
         /\ ssh[h].pc = "done"
         /\ ssh[h].auth = <<>>
         /\ ssh[h].signers = <<>>


\* C22: (under SpecBastion) SSH.Connect comes to an end whatever the bastions
\* are, a chain that closes to a cycle included: once a Connect has begun,
\* the time comes when no Connect is in progress on any struct.
C22_ConnectTerminates ==
    (\E h \in SSHIds : ssh[h].pc \in {"config", "call", "wait"})
        ~> (\A h \in SSHIds : ssh[h].pc \in {"idle", "returned"})


\* C23: each key file is read by pkeySigner at most once, whatever calls of
\* clientConfig are made one after the other; here as long as a single host
\* has called.
C23_KeyFileReadOnce ==
    (\E h \in SSHIds : \A x \in SSHIds \ {h} : ssh[x].pc = "idle")
        => \A f \in Files : reads[f] <= 1

\* C24: the outcome stored for a key path is the outcome that every host with
\* that path in its key list computes for it, whatever the host's agent
\* signers and PasswordCallback are.
C24_OutcomeOfContentsOnly ==
    \A h \in SSHIds :
        Len(ssh[h].keyPaths) > 0 /\ ssh[h].i > 0 =>
            \A k \in 1..Len(ssh[h].keyPaths) :
                LET am == authMethodCache[ssh[h].keyPaths[k]]
                    s == pkeySigner(ssh[h].signers, ssh[h].PasswordCallback,
                                    ssh[h].keyPaths[k])
                IN  am.stored => am.err = s.err /\ am.method = s.method

\* C25: a goroutine that builds the callback over the known-hosts file, or
\* whose handshake is in that callback, holds knownHostsMU, and no two
\* goroutines are at that at a time.
C25_KnownHostsSerialized ==
    LET Touching(h) ==
            \/ ssh[h].pc = "building"
            \/ ssh[h].pc = "handshake" /\ ssh[h].hkc = "KnownHostsFile"
    IN  /\ \A h \in SSHIds : Touching(h) => knownHostsMU = h
        /\ \A h, x \in SSHIds : Touching(h) /\ Touching(x) => h = x

\* C26: with the global defaults being the validated IdentityFile paths of the
\* non-existent host, after SetDefaults the key list of a host is the
\* validated KeyPath, or else the validated paths of the SSH config or of the
\* defaults, and KeyPath is the non-empty KeyPath the user gave, or else the
\* first path of the key list that is no global default, or else nil: a host
\* whose keys are all global defaults has no explicit key.
C26_GlobalDefaultsAndHint ==
    LET GlobalDefaults == ValidatedPaths(identityFiles.dummy)
        Explicit(h) == ssh[h].given # <<>> /\ ssh[h].given[1] # <<>>
        Keys(h) == IF Explicit(h) THEN ValidatedPaths(ssh[h].given)
                   ELSE IF Len(identityFiles.host[h]) = 0
                        THEN ValidatedPaths(defaultKeypaths)
                   ELSE ValidatedPaths(identityFiles.host[h])
        Uniq(h) == findUniq(Keys(h), GlobalDefaults)
    IN  \A h \in SSHIds :
            ssh[h].once =>
                /\ ssh[h].keyPaths = Keys(h)
                /\ ssh[h].KeyPath = IF Explicit(h) THEN ssh[h].given
                                    ELSE IF Uniq(h).found THEN <<Uniq(h).uniq>>
                                    ELSE <<>>

(***************************************************************************)
(* Properties of the sessions and of Upload's file handles                 *)
(***************************************************************************)

\* C27: when Exec or ExecStreams has ended, on success after Wait or on a
\* failure to open, start or execute, the session or shell it opened is
\* closed: a call that has returned leaves no session open.
C27_SessionClosedOnEveryPath ==
    pc = "returned" => session.state \in {"none", "closed"}


\* C28: in Upload the remote file is closed before the remote filesystem is
\* asked for the SHA-256 of the file: every fsys.Sha256 call comes after a
\* remote.Close call.
C28_ClosedBeforeChecksum ==
    ret.op = "Upload" =>
        \A i \in 1..Len(ret.calls) :
            ret.calls[i] = "fsys.Sha256" =>
                \E j \in 1..(i - 1) : ret.calls[j] = "remote.Close"


\* C29: after Connection.Disconnect has returned, every ssh.Client that the
\* Connect calls on this Connection opened is closed: the one of the target,
\* the ones of the bastions, and the ones a later Connect replaced.
C29_DisconnectClosesAll ==
    (lastOp = "Disconnect" /\ ~fault) => (sshClient # "open" /\ unclosed = {})


\* C30: when the Connection is not connected (it never connected, the
\* transport's connect failed, or Disconnect was called since the last
\* Connect), a call of Exec, ExecOutput, ExecStreams, ExecInteractive or
\* Upload returns a not-connected error, makes no call on the transport or
\* on a file, and changes nothing of the Connection.
C30_NotConnectedCallsRefused ==
    [][ LET Called == /\ ret'.op \in {"Exec", "ExecOutput", "ExecStreams",
                                      "ExecInteractive", "Upload"}
                      /\ lastOp' = ret'.op
                      /\ <<ret, lastOp>>' # <<ret, lastOp>>
            NotConnected == \/ lastConnect = "none"
                            \/ discSince
                            \/ lastConnect = "err" /\ client = "nil"
        IN  (Called /\ NotConnected) =>
                /\ IF ret'.op = "Upload" THEN ret'.err = "ErrNotConnected"
                   ELSE ErrorsIs(ret'.err, "ErrNotConnected")
                /\ ret'.calls = <<>>
                /\ UNCHANGED <<slots, client, OSVersion, sudofunc, sshClient,
                               winrmClient, localConnected, fault, unclosed>>
      ]_vars

====
